---- MODULE Spec2Model ----
(***************************************************************************)
(* Query-processing core of the gibson cache server (src/src/query.c).     *)
(*                                                                         *)
(* Byte strings are sequences of one-character strings.  An item is a      *)
(* record; the C field `data` is a pointer that holds either an owned      *)
(* buffer (PLAIN, LZF) or an inline long (NUMBER): the record keeps the    *)
(* buffer in `data` and the inline long in `num`.                          *)
(*                                                                         *)
(* The trie (trie.c), the allocator (zmem.c), the LZF codec (lzf.h) and    *)
(* the reply encoder are not part of query.c; the few operators that stand *)
(* for them are marked "external" below.                                   *)
(***************************************************************************)
EXTENDS Integers, Sequences, FiniteSets, TLC

VARIABLES server, client, reply, pre, destroyed

vars == <<server, client, reply, pre, destroyed>>

----------------------------------------------------------------------------
(* Limits and bounds *)

\* server->limits.* and server->compression (configuration values)
maxkeysize == 4
maxvaluesize == 6
maxitemttl == 2
maxmem == 3
compression == 4

\* sizeof(long), the size of a NUMBER item
SizeofLong == 8

\* size_t arithmetic wraps; the model keeps 30 bits, enough for a wrapped
\* difference to exceed every limit above
SizeMod == 1073741824

\* bounds of the exploration
MaxTime == 2
MaxRequests == 3

----------------------------------------------------------------------------
(* Bytes *)

Digits == <<"0", "1", "2", "3", "4", "5", "6", "7", "8", "9">>

IsDigit(c) == \E i \in 1..10 : Digits[i] = c

DigitVal(c) == (CHOOSE i \in 1..10 : Digits[i] = c) - 1

Min(a, b) == IF a < b THEN a ELSE b

\* a - b in size_t
USub(a, b) == (a - b + SizeMod) % SizeMod

\* the byte at 0-based offset p of a client buffer; a read past the end of
\* the buffer yields the byte c.oob
ByteAt(c, p) == IF p < Len(c.p) THEN c.p[p + 1] ELSE c.oob

\* n bytes starting at 0-based offset p
Bytes(c, p, n) == [j \in 1..n |-> ByteAt(c, p + j - 1)]

IsPrefix(a, b) == Len(a) <= Len(b) /\ SubSeq(b, 1, Len(a)) = a

----------------------------------------------------------------------------
(* gbQueryParseLong *)

RECURSIVE ParseDigits(_, _, _)
\* the for loop of gbQueryParseLong: [ok, n]
ParseDigits(v, i, n) ==
    IF i > Len(v) THEN [ok |-> TRUE, l |-> n]
    ELSE IF IsDigit(v[i]) THEN ParseDigits(v, i + 1, n * 10 + DigitVal(v[i]))
    ELSE [ok |-> FALSE, l |-> 0]

gbQueryParseLong(v) ==
    IF v[1] = "0" THEN [ok |-> TRUE, l |-> 0]
    ELSE IF v[1] = "-"
    THEN LET r == ParseDigits(v, 2, 0) IN [ok |-> r.ok, l |-> 0 - r.l]
    ELSE ParseDigits(v, 1, 0)

----------------------------------------------------------------------------
(* Parsers *)

RECURSIVE Scan(_, _, _, _)
\* while( i++ < end && *p != ' ' ) ++p;   gives p and i after the loop
Scan(c, p, i, end) ==
    IF i < end /\ ByteAt(c, p) # " " THEN Scan(c, p + 1, i + 1, end)
    ELSE [i |-> i + 1, p |-> p]

\* the key parse without the limit on the key size (not the code)
gbParseKeyUnclamped(c) ==
    LET size == Len(c.p)
        k    == Scan(c, 0, 0, size)
        klen == k.p
    IN  [ok |-> klen > 0, klen |-> klen, key |-> Bytes(c, 0, klen)]

\* gbParseKeyValue with value == NULL
gbParseKey(c) ==
    LET size == Len(c.p)
        end  == Min(size, maxkeysize)
        k    == Scan(c, 0, 0, end)
        klen == k.p
    IN  [ok |-> klen > 0, klen |-> klen, key |-> Bytes(c, 0, klen)]

\* gbParseKeyValue with a value requested
gbParseKeyValue(c) ==
    LET size == Len(c.p)
        end  == Min(size, maxkeysize)
        k    == Scan(c, 0, 0, end)
        klen == k.p
        vlen == Min(USub(USub(size, klen), 1), maxvaluesize)
    IN  [ok |-> klen > 0 /\ vlen > 0,
         klen |-> klen, key |-> Bytes(c, 0, klen),
         vlen |-> vlen, value |-> Bytes(c, klen + 1, vlen)]

gbParseKeyAndOptionalValue(c) ==
    LET size == Len(c.p)
        end  == Min(size, maxkeysize)
        k    == Scan(c, 0, 0, end)
        klen == k.p
        left == USub(size, klen)
        has  == left > 0
        vlen == IF has THEN Min(left - 1, maxvaluesize) ELSE 0
    IN  [ok |-> klen > 0 /\ ~(has /\ vlen <= 0),
         klen |-> klen, key |-> Bytes(c, 0, klen),
         vlen |-> vlen,
         value |-> Bytes(c, klen + 1, vlen), hasvalue |-> has]

\* the key loop of gbParseTtlKeyValue restarting its counter (not the code)
TtlKeyScanReset(c, t, end) == Scan(c, t.p + 1, 0, end)

\* the key loop of gbParseTtlKeyValue: i is not reset after the ttl loop
TtlKeyScan(c, t, end) == Scan(c, t.p + 1, t.i, end)

gbParseTtlKeyValue(c) ==
    LET size   == Len(c.p)
        end    == Min(size, maxkeysize)
        t      == Scan(c, 0, 0, end)
        ttllen == t.p
        k      == TtlKeyScan(c, t, end)
        klen   == k.p - (ttllen + 1)
        vlen   == Min(USub(USub(USub(size, ttllen), klen), 2), maxvaluesize)
    IN  [ok |-> ttllen > 0 /\ klen > 0 /\ vlen > 0,
         klen |-> klen, key |-> Bytes(c, ttllen + 1, klen),
         vlen |-> vlen, value |-> Bytes(c, ttllen + klen + 2, vlen),
         ttllen |-> ttllen, ttl |-> Bytes(c, 0, ttllen)]

----------------------------------------------------------------------------
(* External collaborators: LZF codec, allocator accounting, trie *)

RECURSIVE RunLen(_, _)
RunLen(v, i) ==
    IF i < Len(v) /\ v[i + 1] = v[i] THEN
        LET n == RunLen(v, i + 1) IN IF n < 9 THEN n + 1 ELSE 1
    ELSE 1

RECURSIVE Rle(_, _)
Rle(v, i) ==
    IF i > Len(v) THEN <<>>
    ELSE LET n == RunLen(v, i) IN <<v[i], Digits[n + 1]>> \o Rle(v, i + n)

\* lzf_compress( v, vlen, out, maxout ): the compressed bytes, or <<>> (the
\* return value 0) when they do not fit in maxout bytes.  The codec is
\* stood for by a run-length code.
lzf_compress(v, maxout) ==
    LET out == Rle(v, 1) IN IF Len(out) <= maxout THEN out ELSE <<>>

RECURSIVE lzf_decompress(_)
lzf_decompress(d) ==
    IF Len(d) < 2 THEN <<>>
    ELSE [j \in 1..DigitVal(d[2]) |-> d[1]] \o lzf_decompress(SubSeq(d, 3, Len(d)))

\* a slot of the index whose data pointer is NULL
NoItem ==
    [size |-> 0, ttl |-> 0, data |-> <<>>, num |-> 0,
     encoding |-> "NULL", time |-> 0, last_access_time |-> 0, lock |-> 0]

\* tr_find_node: is there a node for the key
tr_find_node(tree, k) == k \in DOMAIN tree

\* tr_find, and node->data of the node found: the item at the key, or NULL
tr_find(tree, k) == IF k \in DOMAIN tree THEN tree[k] ELSE NoItem

\* node->data = item, on an existing node or through tr_insert
tr_insert(tree, k, item) ==
    [x \in DOMAIN tree \cup {k} |-> IF x = k THEN item ELSE tree[x]]

\* tr_remove: the node stays, its data becomes NULL
tr_remove(tree, k) ==
    IF k \in DOMAIN tree THEN [tree EXCEPT ![k] = NoItem] ELSE tree

\* does the search expression match the key: a trailing * matches every key
\* with the prefix before it, anything else matches the key equal to it
Matches(expr, k) ==
    IF Len(expr) > 0 /\ expr[Len(expr)] = "*"
    THEN IsPrefix(SubSeq(expr, 1, Len(expr) - 1), k)
    ELSE expr = k

----------------------------------------------------------------------------
(* Items *)

\* the bytes a client reads from an item: its buffer, decompressed for LZF
Content(item) ==
    IF item.encoding = "LZF" THEN lzf_decompress(item.data) ELSE item.data

\* zmemdup: the allocator hands out n more bytes
zmemdup(s, n) == [s EXCEPT !.heap = @ + n]

\* zfree of a buffer of n bytes
zfree(s, n) == [s EXCEPT !.heap = @ - n]

\* gbCreateItem: the new item and the server with its counters updated
gbCreateItem(s, data, num, size, encoding, ttl) ==
    [server |-> [s EXCEPT
        !.stats.ncompressed = IF encoding = "LZF" THEN @ + 1 ELSE @,
        !.stats.memused = s.heap,
        !.stats.nitems = @ + 1],
     item |-> [size |-> size, ttl |-> ttl, data |-> data, num |-> num,
               encoding |-> encoding, time |-> s.stats.time,
               last_access_time |-> s.stats.time, lock |-> 0]]

\* destruction that leaves the item counted (not the code)
gbDestroyItemUncounted(s, item) ==
    LET f == IF item.encoding # "NUMBER" THEN zfree(s, item.size) ELSE s
    IN  [f EXCEPT
            !.stats.ncompressed = IF item.encoding = "LZF" THEN @ - 1 ELSE @,
            !.stats.memused = f.heap,
            !.freed = Append(@, item)]

\* opool_free_object returns the item to the pool: freed lists the items
\* given back since the request began, in order
gbDestroyItem(s, item) ==
    LET f == IF item.encoding # "NUMBER" THEN zfree(s, item.size) ELSE s
    IN  [f EXCEPT
            !.stats.ncompressed = IF item.encoding = "LZF" THEN @ - 1 ELSE @,
            !.stats.memused = f.heap,
            !.stats.nitems = @ - 1,
            !.freed = Append(@, item)]

\* the lock test without the indefinite lock (not the code)
gbItemIsLockedTimedOnly(item, s) ==
    (s.stats.time - item.time) < item.lock

gbItemIsLocked(item, s) ==
    LET eta == s.stats.time - item.time
    IN  item.lock = -1 \/ eta < item.lock

\* expiry that also takes a ttl of 0 for a countdown (not the code)
ExpiredFromZero(item, s) ==
    LET eta == s.stats.time - item.time
    IN  item.ttl >= 0 /\ eta >= item.ttl

\* ttl > 0 && eta >= ttl
Expired(item, s) ==
    LET eta == s.stats.time - item.time
    IN  item.ttl > 0 /\ eta >= item.ttl

\* gbIsNodeStillValid( node, item, server, remove ): k is the key of node
gbIsNodeStillValid(s, k, item, remove) ==
    IF Expired(item, s)
    THEN LET r == IF remove THEN [s EXCEPT !.tree[k] = NoItem] ELSE s
         IN  [server |-> gbDestroyItem(r, item), valid |-> FALSE]
    ELSE [server |-> s, valid |-> TRUE]

\* expiry detection that destroys the item and leaves it in its slot (not
\* the code)
gbIsItemStillValidKeepsSlot(s, item, k, remove) ==
    IF Expired(item, s)
    THEN [server |-> gbDestroyItem(s, item), valid |-> FALSE]
    ELSE [server |-> s, valid |-> TRUE]

\* gbIsItemStillValid( item, server, key, klen, remove )
gbIsItemStillValid(s, item, k, remove) ==
    IF Expired(item, s)
    THEN LET r == IF remove THEN [s EXCEPT !.tree = tr_remove(@, k)] ELSE s
         IN  [server |-> gbDestroyItem(r, item), valid |-> FALSE]
    ELSE [server |-> s, valid |-> TRUE]

gbSingleSet(s, v, k) ==
    LET vlen  == Len(v)
        compr == IF vlen > compression THEN lzf_compress(v, USub(vlen, 4)) ELSE <<>>
        lzf   == vlen > compression /\ Len(compr) # 0
        data  == IF lzf THEN compr ELSE v
        c     == gbCreateItem(zmemdup(s, Len(data)), data, 0, Len(data),
                              IF lzf THEN "LZF" ELSE "PLAIN", -1)
        old   == tr_find(c.server.tree, k)
        ins   == [c.server EXCEPT !.tree = tr_insert(@, k, c.item)]
    IN  [server |-> IF old # NoItem THEN gbDestroyItem(ins, old) ELSE ins,
         item |-> c.item]

----------------------------------------------------------------------------
(* Replies (the reply encoder is external: a reply is what was enqueued) *)

\* nothing enqueued; ret is what gbProcessQuery returns to its caller
NoReply ==
    [num |-> 0, item |-> NoItem, code |-> "NONE", kind |-> "none",
     keys |-> <<>>, values |-> <<>>, close |-> FALSE, ret |-> "NONE"]

\* the reply is queued and the encoder returns GB_OK
Enqueued == [NoReply EXCEPT !.ret = "GB_OK"]

gbClientEnqueueCode(code, close) ==
    [Enqueued EXCEPT !.code = code, !.kind = "code", !.close = close]

gbClientEnqueueItem(code, item) ==
    [Enqueued EXCEPT !.code = code, !.kind = "item", !.item = item]

\* gbClientEnqueueData( client, code, GB_ENC_NUMBER, &n, sizeof n, ... )
gbClientEnqueueData(code, n) ==
    [Enqueued EXCEPT !.code = code, !.kind = "data", !.num = n]

\* gbClientEnqueueKeyValueSet( client, count, ... ) sends the staged lists
gbClientEnqueueKeyValueSet(count, keys, values) ==
    [Enqueued EXCEPT !.code = "VAL", !.kind = "set", !.num = count,
                     !.keys = keys, !.values = values]

\* the pairs of a key/value set that the encoder sends: those of the staged
\* lists whose value has not been set to NULL
SentPairs(r) == {i \in DOMAIN r.values : r.values[i] # NoItem}

Answer(s, r) == [server |-> s, reply |-> r]

----------------------------------------------------------------------------
(* Single-key handlers *)

\* a rejected SET evicting an item to make room (not the code)
SetRejectEvicts(s, code) ==
    LET held == {k \in DOMAIN s.tree : s.tree[k] # NoItem}
        k    == CHOOSE x \in held : TRUE
    IN  Answer(IF held = {} THEN s
               ELSE gbDestroyItem([s EXCEPT !.tree[k] = NoItem], s.tree[k]),
               gbClientEnqueueCode(code, FALSE))

\* return gbClientEnqueueCode( client, REPL_ERR_..., ... ) in gbQuerySetHandler
SetReject(s, code) == Answer(s, gbClientEnqueueCode(code, FALSE))

\* no admission test (not the code)
MemAdmitsAlways(s) == TRUE

\* server->stats.memused <= server->limits.maxmem
MemAdmits(s) == s.stats.memused <= maxmem

\* item && gbItemIsLocked( item, server, 0 ) in gbQuerySetHandler
SetFindsLocked(item, s) == item # NoItem /\ gbItemIsLocked(item, s)

gbQuerySetHandler(s, c) ==
    IF ~MemAdmits(s) THEN SetReject(s, "ERR_MEM")
    ELSE LET q == gbParseTtlKeyValue(c) IN
    IF ~q.ok THEN SetReject(s, "ERR")
    ELSE LET ttl == gbQueryParseLong(q.ttl) IN
    IF ~ttl.ok THEN SetReject(s, "ERR_NAN")
    ELSE IF SetFindsLocked(tr_find(s.tree, q.key), s)
    THEN SetReject(s, "ERR_LOCKED")
    ELSE LET w    == gbSingleSet(s, q.value, q.key)
             item == IF ttl.l > 0
                     THEN [w.item EXCEPT !.time = s.stats.time,
                                         !.ttl = Min(maxitemttl, ttl.l)]
                     ELSE w.item
         IN  Answer([w.server EXCEPT !.tree[q.key] = item],
                    gbClientEnqueueItem("VAL", item))

gbQueryTtlHandler(s, c) ==
    LET q == gbParseKeyValue(c) IN
    IF ~q.ok THEN Answer(s, gbClientEnqueueCode("ERR", FALSE))
    ELSE LET item == tr_find(s.tree, q.key) IN
    IF item = NoItem THEN Answer(s, gbClientEnqueueCode("ERR_NOT_FOUND", FALSE))
    ELSE LET valid == gbIsItemStillValid(s, item, q.key, TRUE) IN
    IF ~valid.valid
    THEN Answer(valid.server, gbClientEnqueueCode("ERR_NOT_FOUND", FALSE))
    ELSE LET ttl == gbQueryParseLong(q.value) IN
    IF ~ttl.ok THEN Answer(s, gbClientEnqueueCode("ERR_NAN", FALSE))
    ELSE Answer([s EXCEPT !.tree[q.key] =
                    [item EXCEPT !.last_access_time = s.stats.time,
                                 !.time = s.stats.time,
                                 !.ttl = Min(maxitemttl, ttl.l)]],
                gbClientEnqueueCode("OK", FALSE))

gbQueryGetHandler(s, c) ==
    LET q == gbParseKey(c) IN
    IF ~q.ok THEN Answer(s, gbClientEnqueueCode("ERR", FALSE))
    ELSE LET item == tr_find(s.tree, q.key) IN
    IF item = NoItem THEN Answer(s, gbClientEnqueueCode("ERR_NOT_FOUND", FALSE))
    ELSE LET valid == gbIsNodeStillValid(s, q.key, item, TRUE) IN
    IF ~valid.valid
    THEN Answer(valid.server, gbClientEnqueueCode("ERR_NOT_FOUND", FALSE))
    ELSE LET got == [item EXCEPT !.last_access_time = s.stats.time]
         IN  Answer([s EXCEPT !.tree[q.key] = got],
                    gbClientEnqueueItem("VAL", got))

\* DEL replying OK without emptying the slot (not the code)
DelKeepsSlot(s, c) ==
    LET q == gbParseKey(c) IN
    IF ~q.ok THEN Answer(s, gbClientEnqueueCode("ERR", FALSE))
    ELSE LET item == tr_find(s.tree, q.key) IN
    IF item = NoItem THEN Answer(s, gbClientEnqueueCode("ERR_NOT_FOUND", FALSE))
    ELSE IF gbItemIsLocked(item, s)
    THEN Answer(s, gbClientEnqueueCode("ERR_LOCKED", FALSE))
    ELSE LET valid == gbIsNodeStillValid(s, q.key, item, TRUE) IN
    IF ~valid.valid
    THEN Answer(valid.server, gbClientEnqueueCode("ERR_NOT_FOUND", FALSE))
    ELSE Answer(s, gbClientEnqueueCode("OK", FALSE))

gbQueryDelHandler(s, c) ==
    LET q == gbParseKey(c) IN
    IF ~q.ok THEN Answer(s, gbClientEnqueueCode("ERR", FALSE))
    ELSE LET item == tr_find(s.tree, q.key) IN
    IF item = NoItem THEN Answer(s, gbClientEnqueueCode("ERR_NOT_FOUND", FALSE))
    ELSE IF gbItemIsLocked(item, s)
    THEN Answer(s, gbClientEnqueueCode("ERR_LOCKED", FALSE))
    ELSE LET valid == gbIsNodeStillValid(s, q.key, item, TRUE) IN
    IF ~valid.valid
    THEN Answer(valid.server, gbClientEnqueueCode("ERR_NOT_FOUND", FALSE))
    ELSE Answer([gbDestroyItem(s, item) EXCEPT !.tree[q.key] = NoItem],
                gbClientEnqueueCode("OK", FALSE))

\* the item INC and DEC create at a key that has none: (void *)delta (not the code)
IncDecFreshDelta(s, delta) ==
    gbCreateItem(s, <<>>, delta, SizeofLong, "NUMBER", -1)

\* gbCreateItem( server, (void *)1, sizeof( long ), GB_ENC_NUMBER, -1 )
IncDecFresh(s, delta) ==
    gbCreateItem(s, <<>>, 1, SizeofLong, "NUMBER", -1)

\* the PLAIN -> NUMBER promotion keeping the parsed number (not the code)
PromoteNoDelta(s, k, item, num, delta) ==
    [zfree(s, item.size) EXCEPT
        !.stats.memused = s.heap - item.size,
        !.tree[k] = [item EXCEPT !.data = <<>>, !.num = num,
                                 !.encoding = "NUMBER", !.size = SizeofLong]]

\* num += delta; zfree( item->data ); memused = zmem_used(); the item
\* becomes a NUMBER
Promote(s, k, item, num, delta) ==
    [zfree(s, item.size) EXCEPT
        !.stats.memused = s.heap - item.size,
        !.tree[k] = [item EXCEPT !.data = <<>>, !.num = num + delta,
                                 !.encoding = "NUMBER", !.size = SizeofLong]]

gbQueryIncDecHandler(s, c, delta) ==
    LET q == gbParseKey(c) IN
    IF ~q.ok THEN Answer(s, gbClientEnqueueCode("ERR", FALSE))
    ELSE LET item == tr_find(s.tree, q.key) IN
    IF item = NoItem
    THEN LET n == IncDecFresh(s, delta)
         IN  Answer([n.server EXCEPT !.tree = tr_insert(@, q.key, n.item)],
                    gbClientEnqueueItem("VAL", n.item))
    ELSE LET valid == gbIsNodeStillValid(s, q.key, item, TRUE) IN
    IF ~valid.valid
    THEN Answer(valid.server, gbClientEnqueueCode("ERR_NOT_FOUND", FALSE))
    ELSE IF gbItemIsLocked(item, s)
    THEN Answer(s, gbClientEnqueueCode("ERR_LOCKED", FALSE))
    ELSE LET t == [item EXCEPT !.last_access_time = s.stats.time]
             l == IF item.encoding = "PLAIN" THEN gbQueryParseLong(item.data)
                  ELSE [ok |-> FALSE, l |-> 0]
         IN
    IF item.encoding = "NUMBER"
    THEN LET u == [t EXCEPT !.num = @ + delta]
         IN  Answer([s EXCEPT !.tree[q.key] = u], gbClientEnqueueItem("VAL", u))
    ELSE IF item.encoding = "PLAIN" /\ l.ok
    THEN LET u == Promote(s, q.key, t, l.l, delta)
         IN  Answer(u, gbClientEnqueueItem("VAL", u.tree[q.key]))
    ELSE Answer([s EXCEPT !.tree[q.key] = t],
                gbClientEnqueueCode("ERR_NAN", FALSE))

\* LOCK counting the lock from the creation of the item (not the code)
LockKeepsCreationTime(s, c) ==
    LET q == gbParseKeyValue(c) IN
    IF ~q.ok THEN Answer(s, gbClientEnqueueCode("ERR", FALSE))
    ELSE LET item == tr_find(s.tree, q.key) IN
    IF item = NoItem THEN Answer(s, gbClientEnqueueCode("ERR_NOT_FOUND", FALSE))
    ELSE LET valid == gbIsNodeStillValid(s, q.key, item, TRUE) IN
    IF ~valid.valid
    THEN Answer(valid.server, gbClientEnqueueCode("ERR_NOT_FOUND", FALSE))
    ELSE LET locktime == gbQueryParseLong(q.value) IN
    IF ~locktime.ok THEN Answer(s, gbClientEnqueueCode("ERR_NAN", FALSE))
    ELSE LET t == [item EXCEPT !.last_access_time = s.stats.time] IN
    IF ~gbItemIsLocked(t, s)
    THEN Answer([s EXCEPT !.tree[q.key] = [t EXCEPT !.lock = locktime.l]],
                gbClientEnqueueCode("OK", FALSE))
    ELSE Answer([s EXCEPT !.tree[q.key] = t],
                gbClientEnqueueCode("ERR_LOCKED", FALSE))

gbQueryLockHandler(s, c) ==
    LET q == gbParseKeyValue(c) IN
    IF ~q.ok THEN Answer(s, gbClientEnqueueCode("ERR", FALSE))
    ELSE LET item == tr_find(s.tree, q.key) IN
    IF item = NoItem THEN Answer(s, gbClientEnqueueCode("ERR_NOT_FOUND", FALSE))
    ELSE LET valid == gbIsNodeStillValid(s, q.key, item, TRUE) IN
    IF ~valid.valid
    THEN Answer(valid.server, gbClientEnqueueCode("ERR_NOT_FOUND", FALSE))
    ELSE LET locktime == gbQueryParseLong(q.value) IN
    IF ~locktime.ok THEN Answer(s, gbClientEnqueueCode("ERR_NAN", FALSE))
    ELSE LET t == [item EXCEPT !.last_access_time = s.stats.time] IN
    IF ~gbItemIsLocked(t, s)
    THEN Answer([s EXCEPT !.tree[q.key] =
                    [t EXCEPT !.time = s.stats.time, !.lock = locktime.l]],
                gbClientEnqueueCode("OK", FALSE))
    ELSE Answer([s EXCEPT !.tree[q.key] = t],
                gbClientEnqueueCode("ERR_LOCKED", FALSE))

\* UNLOCK refusing an item that is locked (not the code)
UnlockRefusesLocked(s, c) ==
    LET q == gbParseKey(c) IN
    IF ~q.ok THEN Answer(s, gbClientEnqueueCode("ERR", FALSE))
    ELSE LET item == tr_find(s.tree, q.key) IN
    IF item = NoItem THEN Answer(s, gbClientEnqueueCode("ERR_NOT_FOUND", FALSE))
    ELSE LET valid == gbIsNodeStillValid(s, q.key, item, TRUE) IN
    IF ~valid.valid
    THEN Answer(valid.server, gbClientEnqueueCode("ERR_NOT_FOUND", FALSE))
    ELSE IF gbItemIsLocked(item, s)
    THEN Answer(s, gbClientEnqueueCode("ERR_LOCKED", FALSE))
    ELSE Answer([s EXCEPT !.tree[q.key] =
                    [item EXCEPT !.lock = 0,
                                 !.last_access_time = s.stats.time]],
                gbClientEnqueueCode("OK", FALSE))

gbQueryUnlockHandler(s, c) ==
    LET q == gbParseKey(c) IN
    IF ~q.ok THEN Answer(s, gbClientEnqueueCode("ERR", FALSE))
    ELSE LET item == tr_find(s.tree, q.key) IN
    IF item = NoItem THEN Answer(s, gbClientEnqueueCode("ERR_NOT_FOUND", FALSE))
    ELSE LET valid == gbIsNodeStillValid(s, q.key, item, TRUE) IN
    IF ~valid.valid
    THEN Answer(valid.server, gbClientEnqueueCode("ERR_NOT_FOUND", FALSE))
    ELSE Answer([s EXCEPT !.tree[q.key] =
                    [item EXCEPT !.lock = 0,
                                 !.last_access_time = s.stats.time]],
                gbClientEnqueueCode("OK", FALSE))

\* strncmp( m, name, min( mlen, strlen(name) ) ) == 0
MetaIs(m, name) ==
    LET n == Min(Len(m), Len(name)) IN SubSeq(m, 1, n) = SubSeq(name, 1, n)

EncodingCode(e) == CASE e = "PLAIN" -> 0 [] e = "LZF" -> 1 [] OTHER -> 2

gbGetItemMeta(s, item, m) ==
    IF MetaIs(m, <<"s", "i", "z", "e">>) THEN [v |-> item.size, ok |-> TRUE]
    ELSE IF MetaIs(m, <<"e", "n", "c", "o", "d", "i", "n", "g">>)
    THEN [v |-> EncodingCode(item.encoding), ok |-> TRUE]
    ELSE IF MetaIs(m, <<"a", "c", "c", "e", "s", "s">>)
    THEN [v |-> item.last_access_time, ok |-> TRUE]
    ELSE IF MetaIs(m, <<"c", "r", "e", "a", "t", "e", "d">>)
    THEN [v |-> item.time, ok |-> TRUE]
    ELSE IF MetaIs(m, <<"t", "t", "l">>) THEN [v |-> item.ttl, ok |-> TRUE]
    ELSE IF MetaIs(m, <<"l", "e", "f", "t">>)
    THEN [v |-> IF item.ttl <= 0 THEN -1
                ELSE item.ttl - (s.stats.time - item.time),
          ok |-> TRUE]
    ELSE IF MetaIs(m, <<"l", "o", "c", "k">>) THEN [v |-> item.lock, ok |-> TRUE]
    ELSE [v |-> 0, ok |-> FALSE]

gbQueryMetaHandler(s, c) ==
    LET q == gbParseKeyValue(c) IN
    IF ~q.ok THEN Answer(s, gbClientEnqueueCode("ERR", FALSE))
    ELSE LET item == tr_find(s.tree, q.key) IN
    IF item = NoItem THEN Answer(s, gbClientEnqueueCode("ERR_NOT_FOUND", FALSE))
    ELSE LET valid == gbIsNodeStillValid(s, q.key, item, TRUE) IN
    IF ~valid.valid
    THEN Answer(valid.server, gbClientEnqueueCode("ERR_NOT_FOUND", FALSE))
    ELSE LET v == gbGetItemMeta(s, item, q.value)
         IN  Answer([s EXCEPT !.tree[q.key].last_access_time = s.stats.time],
                    IF v.ok THEN gbClientEnqueueData("VAL", v.v)
                    ELSE gbClientEnqueueCode("ERR", FALSE))

----------------------------------------------------------------------------
(* The walk of the index (external: trie.c) *)

Alphabet ==
    <<" ", "*", "-", "0", "1", "2", "3", "4", "5", "6", "7", "8", "9",
      "a", "b", "c", "d", "e", "f", "g", "i", "k", "l", "n", "o", "r", "s",
      "t", "x", "z">>

Rank(c) == CHOOSE i \in 1..Len(Alphabet) : Alphabet[i] = c

RECURSIVE KeyLE(_, _)
KeyLE(a, b) ==
    IF a = <<>> THEN TRUE
    ELSE IF b = <<>> THEN FALSE
    ELSE IF a[1] = b[1] THEN KeyLE(Tail(a), Tail(b))
    ELSE Rank(a[1]) < Rank(b[1])

RECURSIVE Sorted(_)
Sorted(S) ==
    IF S = {} THEN <<>>
    ELSE LET m == CHOOSE k \in S : \A j \in S : KeyLE(k, j)
         IN  <<m>> \o Sorted(S \ {m})

\* the keys of the index that hold an item and match expr
MatchKeys(tree, expr) ==
    {k \in DOMAIN tree : tree[k] # NoItem /\ Matches(expr, k)}

\* tr_search( tree, expr, exprlen, limit, maxkeylen, &keys, &values ): the
\* matching keys in key order, at most limit of them when limit > 0
tr_search(tree, expr, limit) ==
    LET all == Sorted(MatchKeys(tree, expr))
    IN  IF limit > 0 /\ limit < Len(all) THEN SubSeq(all, 1, limit) ELSE all

----------------------------------------------------------------------------
(* Callbacks of the bulk handlers: [server, ret] *)

Visit(s, ret) == [server |-> s, ret |-> ret]

gbMultiSetCallback(ctx, s, k) ==
    LET item == s.tree[k] IN
    IF item = NoItem THEN Visit(s, 0)
    ELSE IF gbItemIsLocked(item, s) THEN Visit(s, 0)
    ELSE LET valid == gbIsItemStillValid(s, item, k, TRUE) IN
    IF ~valid.valid THEN Visit(valid.server, 0)
    ELSE Visit(gbSingleSet(s, ctx.value, k).server, 1)

\* the callback of MTTL storing the ttl as given (not the code)
MultiTtlUnclamped(ctx, s, k) ==
    LET item  == s.tree[k]
        valid == gbIsItemStillValid(s, item, k, TRUE)
    IN  IF ~valid.valid THEN Visit(valid.server, 0)
        ELSE Visit([s EXCEPT !.tree[k] =
                       [item EXCEPT !.last_access_time = s.stats.time,
                                    !.time = s.stats.time,
                                    !.ttl = ctx.ttl]], 1)

gbMultiTtlCallback(ctx, s, k) ==
    LET item  == s.tree[k]
        valid == gbIsItemStillValid(s, item, k, TRUE)
    IN  IF ~valid.valid THEN Visit(valid.server, 0)
        ELSE Visit([s EXCEPT !.tree[k] =
                       [item EXCEPT !.last_access_time = s.stats.time,
                                    !.time = s.stats.time,
                                    !.ttl = Min(maxitemttl, ctx.ttl)]], 1)

gbMultiDelCallback(ctx, s, k) ==
    LET item == s.tree[k] IN
    IF item = NoItem \/ gbItemIsLocked(item, s) THEN Visit(s, 0)
    ELSE LET valid == gbIsNodeStillValid(s, k, item, TRUE) IN
    IF valid.valid
    THEN Visit(gbDestroyItem([s EXCEPT !.tree[k] = NoItem], item), 1)
    ELSE Visit(valid.server, 0)

gbMultiIncDecCallback(ctx, s, k) ==
    LET item == s.tree[k] IN
    IF item = NoItem \/ gbItemIsLocked(item, s) THEN Visit(s, 0)
    ELSE LET valid == gbIsItemStillValid(s, item, k, TRUE) IN
    IF ~valid.valid THEN Visit(valid.server, 0)
    ELSE LET t == [item EXCEPT !.last_access_time = s.stats.time] IN
    IF item.encoding = "NUMBER"
    THEN Visit([s EXCEPT !.tree[k] = [t EXCEPT !.num = @ + ctx.delta]], 1)
    ELSE IF item.encoding = "PLAIN"
    THEN LET l == gbQueryParseLong(item.data)
         IN  IF l.ok THEN Visit(Promote(s, k, t, l.l, ctx.delta), 1)
             ELSE Visit([s EXCEPT !.tree[k] = t], 0)
    ELSE Visit([s EXCEPT !.tree[k] = t], 1)

\* the callback of MLOCK without its lock test (not the code)
MultiLockIgnoresLock(ctx, s, k) ==
    LET item  == s.tree[k]
        valid == gbIsItemStillValid(s, item, k, TRUE)
    IN  IF valid.valid
        THEN Visit([s EXCEPT !.tree[k] =
                       [item EXCEPT !.last_access_time = s.stats.time,
                                    !.time = s.stats.time,
                                    !.lock = ctx.locktime]], 1)
        ELSE Visit(valid.server, 0)

gbMultiLockCallback(ctx, s, k) ==
    LET item  == s.tree[k]
        valid == gbIsItemStillValid(s, item, k, TRUE)
    IN  IF valid.valid /\ ~gbItemIsLocked(item, s)
        THEN Visit([s EXCEPT !.tree[k] =
                       [item EXCEPT !.last_access_time = s.stats.time,
                                    !.time = s.stats.time,
                                    !.lock = ctx.locktime]], 1)
        ELSE Visit(valid.server, 0)

\* the callback of MUNLOCK leaving an indefinite lock in place (not the code)
MultiUnlockTimedOnly(ctx, s, k) ==
    LET item == s.tree[k] IN
    IF item = NoItem THEN Visit(s, 0)
    ELSE LET valid == gbIsItemStillValid(s, item, k, TRUE) IN
    IF valid.valid
    THEN Visit([s EXCEPT !.tree[k] =
                   [item EXCEPT !.lock = IF @ = -1 THEN -1 ELSE 0,
                                !.last_access_time = s.stats.time]], 1)
    ELSE Visit(valid.server, 0)

gbMultiUnlockCallback(ctx, s, k) ==
    LET item == s.tree[k] IN
    IF item = NoItem THEN Visit(s, 0)
    ELSE LET valid == gbIsItemStillValid(s, item, k, TRUE) IN
    IF valid.valid
    THEN Visit([s EXCEPT !.tree[k] =
                   [item EXCEPT !.lock = 0,
                                !.last_access_time = s.stats.time]], 1)
    ELSE Visit(valid.server, 0)

\* the callback of COUNT passing over a locked item (not the code)
CountSkipsLocked(ctx, s, k) ==
    LET item == s.tree[k] IN
    IF item = NoItem THEN Visit(s, 0)
    ELSE LET valid == gbIsItemStillValid(s, item, k, TRUE) IN
    IF ~valid.valid THEN Visit(valid.server, 0)
    ELSE IF gbItemIsLocked(item, s) THEN Visit(s, 0)
    ELSE Visit([s EXCEPT !.tree[k].last_access_time = s.stats.time], 1)

gbCountCallback(ctx, s, k) ==
    LET item == s.tree[k] IN
    IF item = NoItem THEN Visit(s, 0)
    ELSE LET valid == gbIsItemStillValid(s, item, k, TRUE) IN
    IF ~valid.valid THEN Visit(valid.server, 0)
    ELSE Visit([s EXCEPT !.tree[k].last_access_time = s.stats.time], 1)

Callback(cb, ctx, s, k) ==
    CASE cb = "MSET"    -> gbMultiSetCallback(ctx, s, k)
      [] cb = "MTTL"    -> gbMultiTtlCallback(ctx, s, k)
      [] cb = "MDEL"    -> gbMultiDelCallback(ctx, s, k)
      [] cb = "MINCDEC" -> gbMultiIncDecCallback(ctx, s, k)
      [] cb = "MLOCK"   -> gbMultiLockCallback(ctx, s, k)
      [] cb = "MUNLOCK" -> gbMultiUnlockCallback(ctx, s, k)
      [] cb = "COUNT"   -> gbCountCallback(ctx, s, k)

RECURSIVE WalkFrom(_, _, _, _, _, _)
\* the callback on the keys ks[i..], adding what it returns to found
WalkFrom(s, ks, i, cb, ctx, found) ==
    IF i > Len(ks) THEN [server |-> s, found |-> found]
    ELSE LET v == Callback(cb, ctx, s, ks[i])
         IN  WalkFrom(v.server, ks, i + 1, cb, ctx, found + v.ret)

\* tr_search_callback, tr_search_nodes_callback and tr_count: the callback
\* runs on every matching key that holds an item; the result is the number
\* of calls that returned 1
tr_search_callback(s, expr, cb, ctx) ==
    WalkFrom(s, tr_search(s.tree, expr, -1), 1, cb, ctx, 0)

----------------------------------------------------------------------------
(* Bulk handlers *)

\* VAL with the count whatever the count (not the code)
FoundReplyAlwaysVal(w) == Answer(w.server, gbClientEnqueueData("VAL", w.found))

\* if( found ) VAL with the count, else ERR_NOT_FOUND
FoundReply(w) ==
    Answer(w.server,
           IF w.found # 0 THEN gbClientEnqueueData("VAL", w.found)
           ELSE gbClientEnqueueCode("ERR_NOT_FOUND", FALSE))

gbQueryMultiSetHandler(s, c) ==
    IF ~MemAdmits(s) THEN Answer(s, gbClientEnqueueCode("ERR_MEM", FALSE))
    ELSE LET q == gbParseKeyValue(c) IN
    IF ~q.ok THEN Answer(s, gbClientEnqueueCode("ERR", FALSE))
    ELSE FoundReply(tr_search_callback(s, q.key, "MSET", [value |-> q.value]))

gbQueryMultiTtlHandler(s, c) ==
    LET q == gbParseKeyValue(c) IN
    IF ~q.ok THEN Answer(s, gbClientEnqueueCode("ERR", FALSE))
    ELSE LET ttl == gbQueryParseLong(q.value) IN
    IF ~ttl.ok THEN Answer(s, gbClientEnqueueCode("ERR_NAN", FALSE))
    ELSE FoundReply(tr_search_callback(s, q.key, "MTTL", [ttl |-> ttl.l]))

gbQueryMultiDelHandler(s, c) ==
    LET q == gbParseKey(c) IN
    IF ~q.ok THEN Answer(s, gbClientEnqueueCode("ERR", FALSE))
    ELSE FoundReply(tr_search_callback(s, q.key, "MDEL", [none |-> 0]))

gbQueryMultiIncDecHandler(s, c, delta) ==
    LET q == gbParseKey(c) IN
    IF ~q.ok THEN Answer(s, gbClientEnqueueCode("ERR", FALSE))
    ELSE FoundReply(tr_search_callback(s, q.key, "MINCDEC", [delta |-> delta]))

gbQueryMultiLockHandler(s, c) ==
    LET q == gbParseKeyValue(c) IN
    IF ~q.ok THEN Answer(s, gbClientEnqueueCode("ERR", FALSE))
    ELSE LET locktime == gbQueryParseLong(q.value) IN
    IF ~locktime.ok THEN Answer(s, gbClientEnqueueCode("ERR_NAN", FALSE))
    ELSE FoundReply(tr_search_callback(s, q.key, "MLOCK",
                                       [locktime |-> locktime.l]))

gbQueryMultiUnlockHandler(s, c) ==
    LET q == gbParseKey(c) IN
    IF ~q.ok THEN Answer(s, gbClientEnqueueCode("ERR", FALSE))
    ELSE FoundReply(tr_search_callback(s, q.key, "MUNLOCK", [none |-> 0]))

gbQueryCountHandler(s, c) ==
    LET q == gbParseKey(c) IN
    IF ~q.ok THEN Answer(s, gbClientEnqueueCode("ERR", FALSE))
    ELSE LET w == tr_search_callback(s, q.key, "COUNT", [none |-> 0])
         IN  Answer(w.server, gbClientEnqueueData("VAL", w.found))

\* the staging lists left as they are on return (not the code)
KeepStaging(s) == s

\* ll_reset( server->m_keys ); ll_reset( server->m_values );
ResetStaging(s) == [s EXCEPT !.m_keys = <<>>, !.m_values = <<>>]

RECURSIVE MultiGetFilterKeepsCount(_, _, _, _, _)
\* the filter of MGET still counting the items it finds expired (not the code)
MultiGetFilterKeepsCount(s, ks, i, found, values) ==
    IF i > Len(ks) THEN [server |-> s, values |-> values, found |-> found]
    ELSE LET k     == ks[i]
             item  == s.tree[k]
             valid == gbIsItemStillValid(s, item, k, TRUE)
         IN  IF ~valid.valid
             THEN MultiGetFilterKeepsCount(valid.server, ks, i + 1, found,
                                           Append(values, NoItem))
             ELSE LET t == [item EXCEPT !.last_access_time = s.stats.time]
                  IN  MultiGetFilterKeepsCount([s EXCEPT !.tree[k] = t], ks,
                                               i + 1, found, Append(values, t))

RECURSIVE MultiGetFilter(_, _, _, _, _)
\* the first ll_foreach_2 of gbQueryMultiGetHandler over the staged keys
\* ks[i..]: an expired item is destroyed, uncounted and its value entry
\* becomes NULL; the others are touched
MultiGetFilter(s, ks, i, found, values) ==
    IF i > Len(ks) THEN [server |-> s, values |-> values, found |-> found]
    ELSE LET k     == ks[i]
             item  == s.tree[k]
             valid == gbIsItemStillValid(s, item, k, TRUE)
         IN  IF ~valid.valid
             THEN MultiGetFilter(valid.server, ks, i + 1, found - 1,
                                 Append(values, NoItem))
             ELSE LET t == [item EXCEPT !.last_access_time = s.stats.time]
                  IN  MultiGetFilter([s EXCEPT !.tree[k] = t], ks, i + 1,
                                     found, Append(values, t))

gbQueryMultiGetHandler(s, c) ==
    LET q == gbParseKeyAndOptionalValue(c) IN
    IF ~q.ok THEN Answer(s, gbClientEnqueueCode("ERR", FALSE))
    ELSE LET given == q.hasvalue /\ q.vlen # 0
             limit == IF given THEN gbQueryParseLong(q.value)
                      ELSE [ok |-> TRUE, l |-> -1]
         IN
    IF ~limit.ok THEN Answer(s, gbClientEnqueueCode("ERR_NAN", FALSE))
    ELSE LET ks == tr_search(s.tree, q.key, limit.l) IN
    IF Len(ks) = 0 THEN Answer(s, gbClientEnqueueCode("ERR_NOT_FOUND", FALSE))
    ELSE LET f  == MultiGetFilter(s, ks, 1, Len(ks), <<>>)
             st == [f.server EXCEPT !.m_keys = @ \o ks,
                                    !.m_values = @ \o f.values]
         IN
    IF f.found # 0
    THEN Answer(ResetStaging(st),
                gbClientEnqueueKeyValueSet(f.found, st.m_keys, st.m_values))
    ELSE Answer(ResetStaging(st), gbClientEnqueueCode("ERR_NOT_FOUND", FALSE))

RECURSIVE IntToStr(_)
\* sprintf( index, "%lu", i )
IntToStr(i) ==
    IF i < 10 THEN <<Digits[i + 1]>>
    ELSE IntToStr(i \div 10) \o <<Digits[(i % 10) + 1]>>

\* gbCreateVolatileItem( server, data, size, encoding )
gbCreateVolatileItem(data, num, size, encoding) ==
    [size |-> size, ttl |-> -1, data |-> data, num |-> num,
     encoding |-> encoding, time |-> 0, last_access_time |-> 0, lock |-> 0]

gbQueryKeysHandler(s, c) ==
    LET q == gbParseKey(c) IN
    IF ~q.ok THEN Answer(s, gbClientEnqueueCode("ERR", FALSE))
    ELSE LET ks == tr_search(s.tree, q.key, -1) IN
    IF Len(ks) = 0 THEN Answer(s, gbClientEnqueueCode("ERR_NOT_FOUND", FALSE))
    ELSE LET found == Len(ks)
             keys  == [s EXCEPT !.m_values = @ \o ks]
             st    == [keys EXCEPT
                          !.m_keys = [i \in 1..found |-> IntToStr(i - 1)],
                          !.m_values = [i \in 1..Len(@) |->
                              gbCreateVolatileItem(@[i], 0, Len(@[i]), "PLAIN")]]
         IN  Answer(ResetStaging(st),
                    gbClientEnqueueKeyValueSet(found, st.m_keys, st.m_values))

----------------------------------------------------------------------------
(* STATS *)

\* destruction that keeps the duplicated string (not the code)
gbDestroyVolatileItemKeepsData(s, item) == s

\* gbDestroyVolatileItem: the buffer of a PLAIN item is freed
gbDestroyVolatileItem(s, item) ==
    IF item.encoding # "NUMBER" /\ item.data # <<>> THEN zfree(s, item.size)
    ELSE s

\* the APPEND_*_STAT lines of gbQueryStatsHandler in their order: the label,
\* the macro, and the value (a long, or the bytes of the string; the build
\* constants, the floats and the counters kept outside the query core are
\* stood for by fixed values)
StatRows(s) ==
    << <<"server_version", "STRING", <<"1">>  >>,
       <<"server_build_datetime", "STRING", <<"0">>  >>,
       <<"server_allocator", "STRING", <<"m">>  >>,
       <<"server_arch", "STRING", <<"6", "4">>  >>,
       <<"server_started", "LONG", 0>>,
       <<"server_time", "LONG", s.stats.time>>,
       <<"first_item_seen", "LONG", 0>>,
       <<"last_item_seen", "LONG", 0>>,
       <<"total_items", "LONG", s.stats.nitems>>,
       <<"total_compressed_items", "LONG", s.stats.ncompressed>>,
       <<"total_clients", "LONG", 0>>,
       <<"total_cron_done", "LONG", 0>>,
       <<"total_connections", "LONG", 0>>,
       <<"total_requests", "LONG", s.stats.requests>>,
       <<"item_pool_current_used", "LONG", 0>>,
       <<"item_pool_current_capacity", "LONG", 0>>,
       <<"item_pool_total_capacity", "LONG", 0>>,
       <<"item_pool_object_size", "LONG", 0>>,
       <<"item_pool_max_block_size", "LONG", 0>>,
       <<"memory_available", "LONG", 0>>,
       <<"memory_usable", "LONG", maxmem>>,
       <<"memory_used", "LONG", s.stats.memused>>,
       <<"memory_peak", "LONG", 0>>,
       <<"memory_fragmentation", "FLOAT", <<"0">>  >>,
       <<"item_size_avg", "LONG", 0>>,
       <<"compr_rate_avg", "LONG", 0>>,
       <<"reqs_per_client_avg", "FLOAT", <<"0">>  >> >>

\* APPEND_LONG_STAT and APPEND_STRING_STAT (APPEND_FLOAT_STAT prints the
\* float and appends the string): the label goes to m_keys, a volatile item
\* to m_values; a string is duplicated with zstrdup
AppendStat(s, row) ==
    IF row[2] = "LONG"
    THEN [s EXCEPT
            !.m_keys = Append(@, row[1]),
            !.m_values = Append(@, gbCreateVolatileItem(<<>>, row[3],
                                                        SizeofLong, "NUMBER"))]
    ELSE [zmemdup(s, Len(row[3])) EXCEPT
            !.m_keys = Append(@, row[1]),
            !.m_values = Append(@, gbCreateVolatileItem(row[3], 0,
                                                        Len(row[3]), "PLAIN"))]

RECURSIVE AppendStats(_, _, _)
AppendStats(s, rows, i) ==
    IF i > Len(rows) THEN s
    ELSE AppendStats(AppendStat(s, rows[i]), rows, i + 1)

RECURSIVE DestroyStaged(_, _)
\* ll_foreach_2 over the staged pairs: gbDestroyVolatileItem( vi->data )
DestroyStaged(s, i) ==
    IF i > Len(s.m_values) THEN s
    ELSE DestroyStaged(gbDestroyVolatileItem(s, s.m_values[i]), i + 1)

gbQueryStatsHandler(s, c) ==
    LET rows  == StatRows(s)
        st    == AppendStats(s, rows, 1)
        elems == Len(rows)
    IN  Answer(ResetStaging(DestroyStaged(st, 1)),
               gbClientEnqueueKeyValueSet(elems, st.m_keys, st.m_values))

----------------------------------------------------------------------------
(* Dispatcher *)

\* an unknown opcode answered with an error reply (not the code)
UnknownReplies(s) == Answer(s, gbClientEnqueueCode("ERR", FALSE))

\* else return GB_ERR: nothing is enqueued
Unknown(s) == Answer(s, [NoReply EXCEPT !.ret = "GB_ERR"])

gbProcessQuery(s0, c) ==
    LET s == [s0 EXCEPT !.stats.requests = @ + 1] IN
    CASE c.op = "GET"     -> gbQueryGetHandler(s, c)
      [] c.op = "SET"     -> gbQuerySetHandler(s, c)
      [] c.op = "TTL"     -> gbQueryTtlHandler(s, c)
      [] c.op = "MSET"    -> gbQueryMultiSetHandler(s, c)
      [] c.op = "MTTL"    -> gbQueryMultiTtlHandler(s, c)
      [] c.op = "MGET"    -> gbQueryMultiGetHandler(s, c)
      [] c.op = "DEL"     -> gbQueryDelHandler(s, c)
      [] c.op = "MDEL"    -> gbQueryMultiDelHandler(s, c)
      [] c.op = "INC"     -> gbQueryIncDecHandler(s, c, 1)
      [] c.op = "DEC"     -> gbQueryIncDecHandler(s, c, -1)
      [] c.op = "MINC"    -> gbQueryMultiIncDecHandler(s, c, 1)
      [] c.op = "MDEC"    -> gbQueryMultiIncDecHandler(s, c, -1)
      [] c.op = "LOCK"    -> gbQueryLockHandler(s, c)
      [] c.op = "MLOCK"   -> gbQueryMultiLockHandler(s, c)
      [] c.op = "UNLOCK"  -> gbQueryUnlockHandler(s, c)
      [] c.op = "MUNLOCK" -> gbQueryMultiUnlockHandler(s, c)
      [] c.op = "COUNT"   -> gbQueryCountHandler(s, c)
      [] c.op = "PING"    -> Answer(s, gbClientEnqueueCode("OK", FALSE))
      [] c.op = "META"    -> gbQueryMetaHandler(s, c)
      [] c.op = "KEYS"    -> gbQueryKeysHandler(s, c)
      [] c.op = "END"     -> Answer(s, gbClientEnqueueCode("OK", TRUE))
      [] c.op = "STATS"   -> gbQueryStatsHandler(s, c)
      [] OTHER            -> Unknown(s)

----------------------------------------------------------------------------
(* Requests *)

Join(a, b) == a \o <<" ">> \o b

KeyA  == <<"a">>
KeyAB == <<"a", "b">>
Keys  == {KeyA, KeyAB}

\* a space-free run one byte longer than maxkeysize
LongKey == <<"a", "b", "c", "d", "e">>

\* search expressions: every key starting with a, every key starting with b
Exprs == {<<"a", "*">>, <<"b", "*">>}

Minus1 == <<"-", "1">>
Compressible == <<"a", "a", "a", "a", "a", "a">>
Values == {<<"1", "0">>, <<"x">>, Compressible}

SetPayloads ==
    {Join(Join(t, k), v) : t \in {Minus1, <<"1">>}, k \in Keys, v \in Values}
    \cup {Join(Join(<<"x">>, KeyA), <<"x">>), <<"1">>}
    \cup {Join(Join(t, KeyA), <<"x">>) : t \in {<<"0">>, <<"3">>}}
    \cup {Join(Join(Minus1, KeyA), <<"0", "x">>)}

KeyPayloads == Keys
TtlPayloads == {Join(k, v) : k \in Keys, v \in {<<"1">>, <<"x">>}}
               \cup {Join(KeyA, v) : v \in {<<"0">>, Minus1, <<"2">>, <<"3">>}}
LockPayloads == {Join(k, v) : k \in Keys, v \in {Minus1, <<"2">>}}
                \cup {Join(KeyA, v) : v \in {<<"x">>, <<"0", "x">>, <<"-">>,
                                             <<"0", "7">>}}
MetaPayloads == {Join(k, <<"t", "t", "l">>) : k \in Keys}
                \cup {Join(KeyA, <<"l", "o", "c", "k">>), Join(KeyA, <<"z">>)}
MSetPayloads == {Join(e, v) : e \in Exprs, v \in {Minus1, <<"x">>}}
MTtlPayloads == {Join(e, <<"1">>) : e \in Exprs}
                \cup {Join(<<"a", "*">>, v) : v \in {<<"x">>, <<"3">>}}
MLockPayloads == {Join(e, <<"2">>) : e \in Exprs} \cup {Join(<<"a", "*">>, Minus1)}
MGetPayloads == Exprs \cup {Join(<<"a", "*">>, <<"1">>)}

----------------------------------------------------------------------------
(* Specification *)

NoClient == [p |-> <<>>, oob |-> " ", op |-> "NONE"]

Init ==
    /\ server = [tree |-> [k \in {} |-> NoItem],
                 heap |-> 0,
                 stats |-> [time |-> 0, ncompressed |-> 0, memused |-> 0,
                            nitems |-> 0, requests |-> 0],
                 freed |-> <<>>,
                 m_keys |-> <<>>,
                 m_values |-> <<>>]
    /\ client = NoClient
    /\ reply = NoReply
    /\ pre = server
    /\ destroyed = <<>>

\* one request: the network layer hands a complete request buffer to the
\* query processor, which answers it on the server as it is; destroyed is
\* the list of the items the request gave back to the pool
Do(op, payloads) ==
    LET Process(process(_, _), c) ==
            /\ server.stats.requests < MaxRequests
            /\ LET r == process(server, c)
               IN  /\ server' = [r.server EXCEPT !.freed = <<>>]
                   /\ reply' = r.reply
                   /\ destroyed' = r.server.freed
            /\ client' = c
            /\ pre' = server
    IN  \E p \in payloads :
            Process(gbProcessQuery, [p |-> p, oob |-> " ", op |-> op])

Get     == Do("GET", KeyPayloads \cup {<<>>, LongKey})
Set     == Do("SET", SetPayloads)
Ttl     == Do("TTL", TtlPayloads)
MSet    == Do("MSET", MSetPayloads)
MTtl    == Do("MTTL", MTtlPayloads)
MGet    == Do("MGET", MGetPayloads)
Del     == Do("DEL", KeyPayloads)
MDel    == Do("MDEL", Exprs)
Inc     == Do("INC", KeyPayloads \cup {LongKey})
Dec     == Do("DEC", KeyPayloads)
MInc    == Do("MINC", Exprs)
MDec    == Do("MDEC", Exprs)
Lock    == Do("LOCK", LockPayloads)
MLock   == Do("MLOCK", MLockPayloads)
Unlock  == Do("UNLOCK", KeyPayloads)
MUnlock == Do("MUNLOCK", Exprs)
Count   == Do("COUNT", Exprs)
Ping    == Do("PING", {<<>>})
Meta    == Do("META", MetaPayloads)
KeysOp  == Do("KEYS", Exprs)
End     == Do("END", {<<>>})
Stats   == Do("STATS", {<<>>})
Bogus   == Do("BOGUS", {<<>>})

\* the cron of the event loop advances server->stats.time
Tick ==
    /\ server.stats.time < MaxTime
    /\ server' = [server EXCEPT !.stats.time = @ + 1]
    /\ client' = NoClient
    /\ reply' = NoReply
    /\ pre' = server
    /\ destroyed' = <<>>

Next ==
    \/ Get \/ Set \/ Ttl \/ MSet \/ MTtl \/ MGet \/ Del \/ MDel
    \/ Inc \/ Dec \/ MInc \/ MDec \/ Lock \/ MLock \/ Unlock \/ MUnlock
    \/ Count \/ Stats \/ Ping \/ Meta \/ KeysOp \/ End \/ Bogus
    \/ Tick

Spec == Init /\ [][Next]_vars

----------------------------------------------------------------------------
(* Vocabulary of the properties.  In every state reached by a request,      *)
(* client is the request, pre the server before it, server the server after *)
(* it and reply what was enqueued.                                          *)

\* the server time at which the request ran
Now == pre.stats.time

\* locked, as the data model defines it
LockedAt(item, now) == item.lock = -1 \/ (now - item.time) < item.lock

\* expired, as the data model defines it
ExpiredAt(item, now) == item.ttl > 0 /\ now >= item.time + item.ttl

\* value, encoding, ttl and lock of two items agree
SameItem(a, b) ==
    /\ a.data = b.data /\ a.num = b.num /\ a.size = b.size
    /\ a.encoding = b.encoding /\ a.ttl = b.ttl /\ a.lock = b.lock

KeyOps == {"GET", "DEL", "INC", "DEC", "UNLOCK"}
KeyValueOps == {"TTL", "LOCK", "META"}

\* the key a single-key request addresses, when its payload parses
ReqParse ==
    IF client.op \in KeyOps THEN gbParseKey(client)
    ELSE IF client.op \in KeyValueOps
    THEN LET q == gbParseKeyValue(client)
         IN  [ok |-> q.ok, klen |-> q.klen, key |-> q.key]
    ELSE LET q == gbParseTtlKeyValue(client)
         IN  [ok |-> q.ok, klen |-> q.klen, key |-> q.key]

\* the item the request finds at its key
ReqItem == tr_find(pre.tree, ReqParse.key)

\* the request carries the integer its handler asks for, and SET is admitted
WellFormed ==
    /\ ReqParse.ok
    /\ client.op = "LOCK" => gbQueryParseLong(gbParseKeyValue(client).value).ok
    /\ client.op = "SET" =>
          /\ pre.stats.memused <= maxmem
          /\ gbQueryParseLong(gbParseTtlKeyValue(client).ttl).ok

----------------------------------------------------------------------------
(* C1 *)

\* C1: every GET, DEL, TTL, LOCK, UNLOCK, META, INC or DEC on the key of an
\* item with ttl > 0, at a time now >= created_time + ttl, replies NOT_FOUND
\* and leaves the key without an item, whatever the item's lock state.
C1_ExpiredAccessIsNotFound ==
    (/\ client.op \in {"GET", "DEL", "TTL", "LOCK", "UNLOCK", "META", "INC", "DEC"}
     /\ ReqParse.ok
     /\ ReqItem # NoItem
     /\ ExpiredAt(ReqItem, Now))
    => /\ reply.code = "ERR_NOT_FOUND"
       /\ tr_find(server.tree, ReqParse.key) = NoItem

\* the same for every request but DEL on a locked item: this one holds
C1_ExpiredAccessExceptLockedDel ==
    (/\ client.op \in {"GET", "DEL", "TTL", "LOCK", "UNLOCK", "META", "INC", "DEC"}
     /\ ReqParse.ok
     /\ ReqItem # NoItem
     /\ ExpiredAt(ReqItem, Now)
     /\ ~(client.op = "DEL" /\ LockedAt(ReqItem, Now)))
    => /\ reply.code = "ERR_NOT_FOUND"
       /\ tr_find(server.tree, ReqParse.key) = NoItem

\* a DEL on an item that was locked and expired was answered LOCKED and
\* left the item in the index
C1_Witness ==
    /\ client.op = "DEL"
    /\ ReqParse.ok
    /\ ReqItem # NoItem
    /\ ExpiredAt(ReqItem, Now)
    /\ LockedAt(ReqItem, Now)
    /\ reply.code = "ERR_LOCKED"
    /\ tr_find(server.tree, ReqParse.key) = ReqItem

----------------------------------------------------------------------------
(* C2 *)

LockedOps == {"SET", "DEL", "INC", "DEC", "LOCK"}

\* C2 as claimed: while an item is locked, each well-formed SET, DEL, INC,
\* DEC and LOCK on its key replies LOCKED and leaves the item in the index
\* with value, encoding, ttl and lock unchanged, whatever the item's ttl.
C2_LockedWhateverTtl ==
    (/\ client.op \in LockedOps
     /\ WellFormed
     /\ ReqItem # NoItem
     /\ LockedAt(ReqItem, Now))
    => /\ reply.code = "ERR_LOCKED"
       /\ SameItem(tr_find(server.tree, ReqParse.key), ReqItem)

\* C2 amended: the same, for INC, DEC and LOCK only while the item is
\* unexpired; SET and DEL reply LOCKED whatever the item's ttl.
C2_LockedRepliesLocked ==
    (/\ client.op \in LockedOps
     /\ WellFormed
     /\ ReqItem # NoItem
     /\ LockedAt(ReqItem, Now)
     /\ client.op \in {"INC", "DEC", "LOCK"} => ~ExpiredAt(ReqItem, Now))
    => /\ reply.code = "ERR_LOCKED"
       /\ SameItem(tr_find(server.tree, ReqParse.key), ReqItem)

\* an INC on an indefinitely locked item that has a ttl was answered LOCKED
C2_Witness ==
    /\ client.op = "INC"
    /\ ReqItem # NoItem
    /\ ReqItem.lock = -1
    /\ ReqItem.ttl > 0
    /\ reply.code = "ERR_LOCKED"

----------------------------------------------------------------------------
(* Vocabulary of the bulk properties *)

ValueBulkOps == {"MSET", "MTTL", "MLOCK"}
MutatingBulkOps == {"MSET", "MTTL", "MINC", "MDEC", "MLOCK", "MUNLOCK", "MDEL"}
BulkOps == MutatingBulkOps \cup {"MGET", "KEYS", "COUNT"}

BulkParse ==
    IF client.op \in ValueBulkOps
    THEN LET q == gbParseKeyValue(client)
         IN  [ok |-> q.ok, key |-> q.key, value |-> q.value, given |-> TRUE]
    ELSE IF client.op = "MGET"
    THEN LET q == gbParseKeyAndOptionalValue(client)
         IN  [ok |-> q.ok, key |-> q.key, value |-> q.value,
              given |-> q.hasvalue /\ q.vlen # 0]
    ELSE LET q == gbParseKey(client)
         IN  [ok |-> q.ok, key |-> q.key, value |-> <<>>, given |-> FALSE]

\* the request parses, carries the integer its handler asks for, and MSET
\* is admitted: the handler walks the index
Walks ==
    /\ client.op \in BulkOps
    /\ BulkParse.ok
    /\ client.op \in {"MTTL", "MLOCK"} => gbQueryParseLong(BulkParse.value).ok
    /\ (client.op = "MGET" /\ BulkParse.given) => gbQueryParseLong(BulkParse.value).ok
    /\ client.op = "MSET" => pre.stats.memused <= maxmem

\* the keys holding an item that the expression of the request matches
Matched == MatchKeys(pre.tree, BulkParse.key)

\* the number the reply reports
Reported == IF reply.code = "VAL" THEN reply.num ELSE 0

----------------------------------------------------------------------------
(* C3 *)

SkippingOps == {"MSET", "MDEL", "MINC", "MDEC", "MLOCK"}

\* C3 as claimed: a locked item matched by MSET, MDEL, MINC, MDEC or MLOCK
\* stays in the index with value, encoding, ttl and lock unchanged and is
\* not counted, whatever its ttl.
C3_BulkSkipsLockedWhateverTtl ==
    (client.op \in SkippingOps /\ Walks)
    => /\ \A k \in Matched :
             LockedAt(pre.tree[k], Now)
             => SameItem(tr_find(server.tree, k), pre.tree[k])
       /\ Reported <= Cardinality({k \in Matched : ~LockedAt(pre.tree[k], Now)})

\* C3 amended: the same, for MLOCK only while the item is unexpired.
C3_BulkSkipsLocked ==
    (client.op \in SkippingOps /\ Walks)
    => /\ \A k \in Matched :
             (/\ LockedAt(pre.tree[k], Now)
              /\ client.op = "MLOCK" => ~ExpiredAt(pre.tree[k], Now))
             => SameItem(tr_find(server.tree, k), pre.tree[k])
       /\ Reported <= Cardinality({k \in Matched : ~LockedAt(pre.tree[k], Now)})

\* an MLOCK walked over an item that was locked indefinitely and kept it
C3_Witness ==
    /\ client.op = "MLOCK"
    /\ Walks
    /\ \E k \in Matched :
          /\ pre.tree[k].lock = -1
          /\ tr_find(server.tree, k) = pre.tree[k]
    /\ reply.code = "ERR_NOT_FOUND"

----------------------------------------------------------------------------
(* C4 *)

RECURSIVE SpaceAt(_, _)
\* the first index >= i of p that holds a space, Len(p) + 1 if there is none
SpaceAt(p, i) ==
    IF i > Len(p) \/ p[i] = " " THEN i ELSE SpaceAt(p, i + 1)

\* the three fields of a SET payload "ttl key value"
SetFields ==
    LET p  == client.p
        s1 == SpaceAt(p, 1)
        s2 == SpaceAt(p, s1 + 1)
    IN  [key    |-> SubSeq(p, s1 + 1, s2 - 1),
         value  |-> SubSeq(p, s2 + 1, Len(p)),
         ttl    |-> SubSeq(p, 1, s1 - 1),
         shaped |-> s2 <= Len(p)]

\* the reply to a GET of key k sent now
GetNow(k) == gbQueryGetHandler(server, [p |-> k, oob |-> " ", op |-> "GET"]).reply

\* C4: after a SET with a non-empty, space-free key k of length <= maxkeysize
\* and a value v of length <= maxvaluesize replies VAL, a GET of k at the
\* same server time replies VAL with an item whose content is exactly v.
C4_SetThenGet ==
    (/\ client.op = "SET"
     /\ reply.code = "VAL"
     /\ SetFields.shaped
     /\ Len(SetFields.key) \in 1..maxkeysize
     /\ Len(SetFields.value) \in 1..maxvaluesize)
    => /\ GetNow(SetFields.key).code = "VAL"
       /\ Content(GetNow(SetFields.key).item) = SetFields.value

\* a SET of a two-byte key replied VAL and a GET of that key finds nothing
C4_Witness ==
    /\ client.op = "SET"
    /\ reply.code = "VAL"
    /\ SetFields.shaped
    /\ SetFields.key = KeyAB
    /\ Len(SetFields.value) \in 1..maxvaluesize
    /\ GetNow(KeyAB).code = "ERR_NOT_FOUND"

----------------------------------------------------------------------------
(* C5 *)

\* the item holds an integer: NUMBER, or PLAIN bytes that parse
Numeric(item) ==
    \/ item.encoding = "NUMBER"
    \/ item.encoding = "PLAIN" /\ gbQueryParseLong(item.data).ok

\* the matching items the operation is to mutate
Eligible(numeric(_)) ==
    {k \in Matched :
        LET item == pre.tree[k] IN
        /\ ~ExpiredAt(item, Now)
        /\ client.op \in SkippingOps => ~LockedAt(item, Now)
        /\ client.op \in {"MINC", "MDEC"} => numeric(item)}

\* C5: the number a mutating bulk operation reports is the number of
\* matching items it mutated: locked, expired and (MINC, MDEC) non-numeric
\* items, LZF-encoded ones included, are not counted.
C5_BulkCountIsMutated ==
    (client.op \in MutatingBulkOps /\ Walks)
    => /\ reply.code \in {"VAL", "ERR_NOT_FOUND"}
       /\ Reported = Cardinality(Eligible(Numeric))

NumericOrLzf(item) == Numeric(item) \/ item.encoding = "LZF"

\* what the code does: MINC and MDEC count an LZF item they leave alone
C5_BulkCountWithLzf ==
    (client.op \in MutatingBulkOps /\ Walks)
    => /\ reply.code \in {"VAL", "ERR_NOT_FOUND"}
       /\ Reported = Cardinality(Eligible(NumericOrLzf))

\* an MINC reported an LZF item, which it left as it was but for the touch
C5_Witness ==
    /\ client.op = "MINC"
    /\ Walks
    /\ reply.code = "VAL"
    /\ \E k \in Matched :
          /\ pre.tree[k].encoding = "LZF"
          /\ k \in Eligible(NumericOrLzf)
          /\ SameItem(tr_find(server.tree, k), pre.tree[k])
    /\ Reported > Cardinality(Eligible(Numeric))

----------------------------------------------------------------------------
(* C6 *)

\* the decimal text of the integer n
DecimalText(n) == IF n < 0 THEN <<"-">> \o IntToStr(0 - n) ELSE IntToStr(n)

\* the integers whose decimal text fits in a value
SmallInts == -99..99

Delta == IF client.op = "INC" THEN 1 ELSE -1

\* C6: INC (DEC) on an unexpired, unlocked PLAIN item whose bytes are the
\* decimal text of n replies VAL with the item, now a NUMBER holding n + 1
\* (n - 1) with the size of a long; a GET that follows returns that number.
C6_NumericPromotion ==
    (/\ client.op \in {"INC", "DEC"}
     /\ ReqParse.ok
     /\ ReqItem.encoding = "PLAIN"
     /\ ~ExpiredAt(ReqItem, Now)
     /\ ~LockedAt(ReqItem, Now))
    => \A n \in SmallInts :
          ReqItem.data = DecimalText(n)
          => /\ reply.code = "VAL"
             /\ reply.kind = "item"
             /\ reply.item = tr_find(server.tree, ReqParse.key)
             /\ reply.item.encoding = "NUMBER"
             /\ reply.item.num = n + Delta
             /\ reply.item.size = SizeofLong
             /\ GetNow(ReqParse.key).code = "VAL"
             /\ GetNow(ReqParse.key).item.encoding = "NUMBER"
             /\ GetNow(ReqParse.key).item.num = n + Delta

\* a DEC found the PLAIN bytes "10" and answered with the NUMBER 9
C6_Witness ==
    /\ client.op = "DEC"
    /\ ReqParse.ok
    /\ ReqItem.encoding = "PLAIN"
    /\ ReqItem.data = <<"1", "0">>
    /\ reply.code = "VAL"
    /\ reply.item.encoding = "NUMBER"
    /\ reply.item.num = 9

----------------------------------------------------------------------------
(* C7 *)

\* C7: INC and DEC alike, on a key that has no item (no slot, or a slot
\* emptied by a delete or an expiry), create a NUMBER item with value 1,
\* ttl -1 and lock 0 at that key and reply VAL with it.
C7_IncDecOnAbsent ==
    (/\ client.op \in {"INC", "DEC"}
     /\ ReqParse.ok
     /\ ReqItem = NoItem)
    => /\ reply.code = "VAL"
       /\ reply.kind = "item"
       /\ reply.item = tr_find(server.tree, ReqParse.key)
       /\ reply.item.encoding = "NUMBER"
       /\ reply.item.num = 1
       /\ reply.item.size = SizeofLong
       /\ reply.item.ttl = -1
       /\ reply.item.lock = 0
       /\ server.stats.nitems = pre.stats.nitems + 1

\* a DEC on a slot that an earlier request emptied was answered with 1
C7_Witness ==
    /\ client.op = "DEC"
    /\ ReqParse.ok
    /\ ReqParse.key \in DOMAIN pre.tree
    /\ ReqItem = NoItem
    /\ reply.code = "VAL"
    /\ reply.item.num = 1

----------------------------------------------------------------------------
(* C8 *)

\* what the walk of the request counts, run again on the server before it
WalkCount ==
    LET cb == CASE client.op \in {"MINC", "MDEC"} -> "MINCDEC"
                [] OTHER -> client.op
        t  == IF BulkParse.value = <<>> THEN [ok |-> FALSE, l |-> 0]
              ELSE gbQueryParseLong(BulkParse.value)
    IN  IF client.op = "KEYS" THEN Cardinality(Matched)
        ELSE IF client.op = "MGET"
        THEN LET ks == tr_search(pre.tree, BulkParse.key,
                                 IF BulkParse.given THEN t.l ELSE -1)
             IN  MultiGetFilter(pre, ks, 1, Len(ks), <<>>).found
        ELSE tr_search_callback(pre, BulkParse.key, cb,
                [value |-> BulkParse.value, ttl |-> t.l,
                 delta |-> IF client.op = "MINC" THEN 1 ELSE -1,
                 locktime |-> t.l]).found

\* C8 as claimed: every bulk operation, COUNT included, replies NOT_FOUND
\* when its walk counts zero items and VAL only when the count is positive.
C8_ZeroCountIsNotFound ==
    Walks
    => /\ WalkCount = 0 => reply.code = "ERR_NOT_FOUND"
       /\ reply.code = "VAL" => reply.num > 0 /\ reply.num = WalkCount

\* C8 amended: so do all bulk operations but COUNT; COUNT always replies VAL
\* with its count, zero included.
C8_BulkReplyShape ==
    Walks
    => IF client.op = "COUNT"
       THEN reply.code = "VAL" /\ reply.num = WalkCount
       ELSE /\ WalkCount = 0 => reply.code = "ERR_NOT_FOUND"
            /\ reply.code = "VAL" => reply.num > 0 /\ reply.num = WalkCount
            /\ reply.code \in {"VAL", "ERR_NOT_FOUND"}

\* an MDEL matched items, deleted none and replied NOT_FOUND
C8_Witness ==
    /\ client.op = "MDEL"
    /\ Walks
    /\ Matched # {}
    /\ WalkCount = 0
    /\ reply.code = "ERR_NOT_FOUND"

----------------------------------------------------------------------------
(* C9 *)

\* the request left the index, the items and the counters as they were
NothingChanged ==
    /\ server.tree = pre.tree
    /\ server.heap = pre.heap
    /\ server.stats.nitems = pre.stats.nitems
    /\ server.stats.ncompressed = pre.stats.ncompressed
    /\ server.stats.memused = pre.stats.memused

\* C9 as claimed: when memused > maxmem, SET and every mutating bulk
\* operation reply MEM and perform no mutation.
C9_MemRejectsAllMutators ==
    (/\ client.op \in {"SET"} \cup MutatingBulkOps
     /\ pre.stats.memused > maxmem)
    => reply.code = "ERR_MEM" /\ NothingChanged

\* C9 amended: when memused > maxmem, SET and MSET reply MEM and perform no
\* mutation; the other bulk operations have no admission test.
C9_MemRejectsSetAndMSet ==
    (/\ client.op \in {"SET", "MSET"}
     /\ pre.stats.memused > maxmem)
    => reply.code = "ERR_MEM" /\ NothingChanged

\* an MSET whose expression matches an item was refused for memory
C9_Witness ==
    /\ client.op = "MSET"
    /\ pre.stats.memused > maxmem
    /\ BulkParse.ok
    /\ Matched # {}
    /\ reply.code = "ERR_MEM"

----------------------------------------------------------------------------
(* C10 *)

\* C10: a SET that replies MEM, ERR, NAN or LOCKED changes nothing: the keys
\* of the index, every item with its timestamps, nitems and ncompressed.
C10_RejectedSetChangesNothing ==
    (/\ client.op = "SET"
     /\ reply.code \in {"ERR_MEM", "ERR", "ERR_NAN", "ERR_LOCKED"})
    => /\ DOMAIN server.tree = DOMAIN pre.tree
       /\ NothingChanged

\* a SET on a locked item was answered LOCKED
C10_Witness ==
    /\ client.op = "SET"
    /\ reply.code = "ERR_LOCKED"
    /\ ReqItem # NoItem
    /\ LockedAt(ReqItem, Now)

----------------------------------------------------------------------------
(* C11 *)

\* the requests whose handler parses a key or an expression
ParsingOps == KeyOps \cup KeyValueOps \cup {"SET"} \cup BulkOps

\* the key or expression the handler of the request parsed
KeyParse ==
    IF client.op \in BulkOps
    THEN [ok |-> BulkParse.ok, klen |-> Len(BulkParse.key), key |-> BulkParse.key]
    ELSE ReqParse

\* the length of the space-free run the payload starts with
FirstRun == SpaceAt(client.p, 1) - 1

\* C11: for every handler a successfully parsed key has
\* 1 <= klen <= min(L, maxkeysize); when the payload starts with a space-free
\* run longer than maxkeysize, the key used for the index operation is the
\* first maxkeysize bytes of that run.
C11_KeySizeClamp ==
    (client.op \in ParsingOps /\ KeyParse.ok)
    => /\ KeyParse.klen = Len(KeyParse.key)
       /\ KeyParse.klen >= 1
       /\ KeyParse.klen <= Min(Len(client.p), maxkeysize)
       /\ FirstRun > maxkeysize
          => /\ KeyParse.key = SubSeq(client.p, 1, maxkeysize)
             /\ client.op = "GET"
                => (reply.code = "VAL") =
                       (/\ tr_find(pre.tree, KeyParse.key) # NoItem
                        /\ ~ExpiredAt(tr_find(pre.tree, KeyParse.key), Now))
             /\ (client.op = "INC" /\ tr_find(pre.tree, KeyParse.key) = NoItem)
                => /\ tr_find(server.tree, KeyParse.key) # NoItem
                   /\ ~tr_find_node(server.tree, client.p)

\* a GET of a five-byte key was answered with the item at its first four bytes
C11_Witness ==
    /\ client.op = "GET"
    /\ client.p = LongKey
    /\ KeyParse.ok
    /\ KeyParse.key = SubSeq(LongKey, 1, maxkeysize)
    /\ tr_find(pre.tree, KeyParse.key) # NoItem
    /\ reply.code = "VAL"
    /\ reply.item.num = tr_find(pre.tree, KeyParse.key).num

----------------------------------------------------------------------------
(* C12 *)

\* the opcodes gbProcessQuery dispatches
KnownOps ==
    {"GET", "SET", "TTL", "MSET", "MTTL", "MGET", "DEL", "MDEL", "INC", "DEC",
     "MINC", "MDEC", "LOCK", "MLOCK", "UNLOCK", "MUNLOCK", "COUNT", "STATS",
     "PING", "META", "KEYS", "END"}

\* C12: every request with a known opcode enqueues one reply on every path,
\* success or error, and returns what the encoder returns; a request with an
\* unknown opcode enqueues nothing, returns GB_ERR and touches neither the
\* index nor the counters of the items.
C12_OneReplyPerRequest ==
    /\ client.op \in KnownOps
       => /\ reply.kind \in {"code", "item", "data", "set"}
          /\ reply.code \in {"OK", "VAL", "ERR", "ERR_NOT_FOUND", "ERR_NAN",
                              "ERR_MEM", "ERR_LOCKED"}
          /\ reply.ret = "GB_OK"
    /\ (client.op # "NONE" /\ client.op \notin KnownOps)
       => /\ reply.kind = "none"
          /\ reply.code = "NONE"
          /\ reply.ret = "GB_ERR"
          /\ NothingChanged
          /\ server.stats.requests = pre.stats.requests + 1

\* a META asking for a field that does not exist got its one reply, ERR
C12_Witness ==
    /\ client.op = "META"
    /\ ReqParse.ok
    /\ ReqItem # NoItem
    /\ ~ExpiredAt(ReqItem, Now)
    /\ ~gbGetItemMeta(pre, ReqItem, gbParseKeyValue(client).value).ok
    /\ reply.kind = "code"
    /\ reply.code = "ERR"
    /\ reply.ret = "GB_OK"

----------------------------------------------------------------------------
(* C13 *)

IgnoringOps ==
    {"UNLOCK", "TTL", "MTTL", "MUNLOCK", "GET", "META", "COUNT", "KEYS", "MGET"}

\* the item with its lock released
Released(item) == IF item = NoItem THEN NoItem ELSE [item EXCEPT !.lock = 0]

\* the server with the lock of every item released, the list of the items
\* given back to the pool aside
ReleasedServer(s) ==
    [s EXCEPT !.tree = [k \in DOMAIN @ |-> Released(@[k])],
              !.freed = <<>>]

\* the reply without the locks of the items it carries
ReleasedReply(r) ==
    [r EXCEPT !.item = Released(@),
              !.values = [i \in DOMAIN @ |-> Released(@[i])]]

\* the request run on the server before it with every lock released
OnReleased == gbProcessQuery(ReleasedServer(pre), client)

\* the request is a META whose field name selects the lock of the item
MetaOfLock ==
    /\ client.op = "META"
    /\ ReqParse.ok
    /\ gbGetItemMeta(pre, [NoItem EXCEPT !.lock = 7],
                     gbParseKeyValue(client).value).v = 7

\* C13 as claimed: UNLOCK, TTL, MTTL, MUNLOCK, GET, META, COUNT, KEYS and
\* MGET give on a locked item the reply and the effect they give on the same
\* item unlocked, and never reply LOCKED.
C13_LockIgnored ==
    client.op \in IgnoringOps
    => /\ reply.code # "ERR_LOCKED"
       /\ ReleasedReply(reply) = ReleasedReply(OnReleased.reply)
       /\ ReleasedServer(server) = ReleasedServer(OnReleased.server)

\* C13 amended: the same, but for the reply of a META that asks for the
\* field lock, which carries the lock of the item.
C13_LockIgnoredButByMetaLock ==
    client.op \in IgnoringOps
    => /\ reply.code # "ERR_LOCKED"
       /\ ReleasedServer(server) = ReleasedServer(OnReleased.server)
       /\ IF MetaOfLock /\ reply.code = "VAL"
          THEN reply.kind = "data" /\ reply.num = ReqItem.lock
          ELSE ReleasedReply(reply) = ReleasedReply(OnReleased.reply)

\* a TTL on an item locked indefinitely and not expired was answered OK
C13_Witness ==
    /\ client.op = "TTL"
    /\ ReqParse.ok
    /\ ReqItem # NoItem
    /\ ReqItem.lock = -1
    /\ ~ExpiredAt(ReqItem, Now)
    /\ reply.code = "OK"
    /\ tr_find(server.tree, ReqParse.key).ttl = 1
    /\ tr_find(server.tree, ReqParse.key).lock = -1

----------------------------------------------------------------------------
(* C14 *)

\* the keys of the server that hold an item without expiry
Unexpiring(s) == {k \in DOMAIN s.tree : s.tree[k] # NoItem /\ s.tree[k].ttl <= 0}

\* the server at a later time
AtTime(s, now) == [s EXCEPT !.stats.time = now]

\* the times from now on, past the last tick of the clock
LaterTimes(s) == s.stats.time .. (MaxTime + maxitemttl + 1)

\* a GET of the key
GetOf(k) == [p |-> k, oob |-> " ", op |-> "GET"]

\* the text of the ttl of a SET, of the value of a TTL
TtlText ==
    IF client.op = "SET" THEN gbParseTtlKeyValue(client).ttl
    ELSE gbParseKeyValue(client).value

\* C14: an item whose ttl is <= 0 never expires: at every later server time
\* a GET of its key replies VAL, no request but a DEL or an MDEL leaves its
\* key without an item, and a SET with ttl 0 or -1 and a TTL with value 0 or
\* -1 that succeed leave an item with ttl <= 0 at the key.
C14_NoExpiryAtOrBelowZero ==
    /\ \A k \in Unexpiring(server) : \A now \in LaterTimes(server) :
          LET r == gbProcessQuery(AtTime(server, now), GetOf(k))
          IN  /\ r.reply.code = "VAL"
              /\ SameItem(r.reply.item, server.tree[k])
              /\ SameItem(r.server.tree[k], server.tree[k])
    /\ \A k \in Unexpiring(pre) :
          tr_find(server.tree, k) = NoItem => client.op \in {"DEL", "MDEL"}
    /\ (/\ client.op \in {"SET", "TTL"}
        /\ ReqParse.ok
        /\ TtlText \in {<<"0">>, Minus1}
        /\ reply.code = IF client.op = "SET" THEN "VAL" ELSE "OK")
       => /\ ReqParse.key \in Unexpiring(server)
          /\ server.tree[ReqParse.key].ttl = gbQueryParseLong(TtlText).l
             \/ (client.op = "SET" /\ server.tree[ReqParse.key].ttl = -1)

\* a GET found an item of ttl 0, as old as the clock allows, and replied VAL
C14_Witness ==
    /\ client.op = "GET"
    /\ ReqParse.ok
    /\ ReqItem # NoItem
    /\ ReqItem.ttl = 0
    /\ Now - ReqItem.time = MaxTime
    /\ reply.code = "VAL"
    /\ tr_find(server.tree, ReqParse.key).ttl = 0

----------------------------------------------------------------------------
(* C15 *)

\* the keys of the server that hold an item
Holding(s) == {k \in DOMAIN s.tree : s.tree[k] # NoItem}

\* the bytes the items of the keys own on the heap
RECURSIVE OwnedBytes(_, _)
OwnedBytes(s, ks) ==
    IF ks = {} THEN 0
    ELSE LET k == CHOOSE x \in ks : TRUE
         IN  (IF s.tree[k].encoding = "NUMBER" THEN 0 ELSE s.tree[k].size)
             + OwnedBytes(s, ks \ {k})

\* C15: after every request nitems is the number of index keys that hold an
\* item and ncompressed the number of those items that are LZF encoded; the
\* heap holds the buffers of the items in the index and nothing else, so
\* every item that left the index was destroyed exactly once.
C15_CounterAccounting ==
    /\ server.stats.nitems = Cardinality(Holding(server))
    /\ server.stats.ncompressed =
          Cardinality({k \in Holding(server) : server.tree[k].encoding = "LZF"})
    /\ server.heap = OwnedBytes(server, Holding(server))

\* a SET has overwritten an LZF item with a plain one, an item is still in
\* the index and the counters have followed
C15_Witness ==
    /\ client.op = "SET"
    /\ reply.code = "VAL"
    /\ ReqItem.encoding = "LZF"
    /\ reply.item.encoding = "PLAIN"
    /\ pre.stats.ncompressed = 1
    /\ server.stats.ncompressed = 0
    /\ server.stats.nitems = pre.stats.nitems

----------------------------------------------------------------------------
(* C16 *)

StagingOps == {"MGET", "KEYS", "STATS"}

\* both reply-staging lists of the server are empty
StagingEmpty(s) == s.m_keys = <<>> /\ s.m_values = <<>>

\* C16: the key list and the value list are empty when a handler starts and
\* empty again when it returns, for MGET, KEYS and STATS on every path (the
\* set they reply with was staged in the lists) and for every other handler.
C16_StagingListsEmpty ==
    /\ StagingEmpty(pre)
    /\ StagingEmpty(server)
    /\ (client.op \in StagingOps /\ reply.kind = "set")
       => /\ Len(reply.keys) > 0
          /\ Len(reply.keys) = Len(reply.values)

\* an MGET whose matches had all expired replied NOT_FOUND, removed them and
\* left both lists empty
C16_Witness ==
    /\ client.op = "MGET"
    /\ \E k \in DOMAIN pre.tree :
          /\ pre.tree[k] # NoItem
          /\ ExpiredAt(pre.tree[k], Now)
          /\ Matches(gbParseKeyAndOptionalValue(client).key, k)
          /\ server.tree[k] = NoItem
    /\ reply.code = "ERR_NOT_FOUND"
    /\ StagingEmpty(server)

----------------------------------------------------------------------------
(* C17 *)

\* the labels a STATS reply has to carry
RequiredLabels ==
    {"server_version", "server_build_datetime", "server_allocator",
     "server_arch", "server_started", "server_time", "first_item_seen",
     "last_item_seen", "total_items", "total_compressed_items",
     "total_clients", "total_cron_done", "total_connections",
     "total_requests", "item_pool_current_used", "item_pool_current_capacity",
     "item_pool_total_capacity", "item_pool_object_size",
     "item_pool_max_block_size", "memory_available", "memory_usable",
     "memory_used", "memory_peak", "memory_fragmentation", "item_size_avg",
     "compr_rate_avg", "reqs_per_client_avg"}

\* how many times the label is in the keys of the reply
Occurrences(label) ==
    Cardinality({i \in DOMAIN reply.keys : reply.keys[i] = label})

\* the value the reply pairs with the label
StatOf(label) ==
    reply.values[CHOOSE i \in DOMAIN reply.keys : reply.keys[i] = label]

\* C17: STATS replies with a key/value set that carries every required label
\* exactly once, 27 pairs in all, the count given to the encoder is the
\* number of staged pairs, and the index, every item, nitems and ncompressed
\* are as before; the staged volatile items are destroyed, so the heap is as
\* before too.
C17_StatsReply ==
    client.op = "STATS"
    => /\ reply.code = "VAL"
       /\ reply.kind = "set"
       /\ Cardinality(RequiredLabels) = 27
       /\ \A label \in RequiredLabels : Occurrences(label) = 1
       /\ Len(reply.keys) = 27
       /\ Len(reply.values) = Len(reply.keys)
       /\ reply.num = Len(reply.keys)
       /\ StatOf("total_items").num = pre.stats.nitems
       /\ StatOf("total_compressed_items").num = pre.stats.ncompressed
       /\ server.tree = pre.tree
       /\ server.stats.nitems = pre.stats.nitems
       /\ server.stats.ncompressed = pre.stats.ncompressed
       /\ server.heap = pre.heap

\* a STATS on a server holding a compressed item replied with the set and
\* left the item where it was
C17_Witness ==
    /\ client.op = "STATS"
    /\ reply.kind = "set"
    /\ reply.num = 27
    /\ pre.stats.ncompressed = 1
    /\ StatOf("total_compressed_items").num = 1
    /\ server.tree = pre.tree
    /\ server.heap = pre.heap

----------------------------------------------------------------------------
(* C18 *)

\* the text without its leading sign
Unsigned(v) == IF Len(v) > 0 /\ v[1] = "-" THEN Tail(v) ELSE v

\* an optional leading - followed by one or more digits
IsDecimal(v) ==
    /\ Len(Unsigned(v)) >= 1
    /\ \A i \in DOMAIN Unsigned(v) : IsDigit(Unsigned(v)[i])

RECURSIVE DigitsValue(_)
\* the number the digits write in base ten
DigitsValue(d) ==
    IF d = <<>> THEN 0
    ELSE 10 * DigitsValue(SubSeq(d, 1, Len(d) - 1)) + DigitVal(d[Len(d)])

\* the decimal value of the text
DecimalValue(v) ==
    IF v[1] = "-" THEN 0 - DigitsValue(Unsigned(v)) ELSE DigitsValue(v)

\* the request is a TTL or a LOCK that finds an unexpired item at its key,
\* so that its handler parses the integer of the request
ParsesLong ==
    /\ client.op \in {"TTL", "LOCK"}
    /\ ReqParse.ok
    /\ ReqItem # NoItem
    /\ ~ExpiredAt(ReqItem, Now)

\* the text the handler hands to gbQueryParseLong
LongText == gbParseKeyValue(client).value

\* the integer parse is as the claim says, and the handler reports it
ParseLongAsClaimed ==
    LET r == gbQueryParseLong(LongText) IN
    /\ r.ok <=> IsDecimal(LongText)
    /\ r.ok => r.l = DecimalValue(LongText)
    /\ reply.code = "ERR_NAN" <=> ~IsDecimal(LongText)
    /\ reply.code = "OK" =>
          LET item == tr_find(server.tree, ReqParse.key)
          IN  IF client.op = "LOCK" THEN item.lock = DecimalValue(LongText)
              ELSE item.ttl = Min(maxitemttl, DecimalValue(LongText))

\* C18: gbQueryParseLong succeeds if and only if the input is an optional
\* leading - followed by one or more digits, and then yields the decimal
\* value of the text; any other input fails and the handler replies NAN.
C18_ParseLong == ParsesLong => ParseLongAsClaimed

\* the same for the texts that neither start with 0 nor are the sign alone:
\* this one holds
C18_ParseLongButZeroAndSign ==
    (/\ ParsesLong
     /\ LongText[1] # "0" \/ LongText = <<"0">>
     /\ LongText # <<"-">>)
    => ParseLongAsClaimed

\* a LOCK whose integer was 0x was answered OK and stored the lock 0
C18_Witness ==
    /\ client.op = "LOCK"
    /\ ParsesLong
    /\ LongText = <<"0", "x">>
    /\ ~IsDecimal(LongText)
    /\ reply.code = "OK"
    /\ tr_find(server.tree, ReqParse.key).lock = 0

----------------------------------------------------------------------------
(* C19 *)

\* the smaller of the limit and the ttl asked for
Clamped(ttl) == IF ttl > maxitemttl THEN maxitemttl ELSE ttl

\* the integer of a SET, TTL or MTTL request
TtlAsked == gbQueryParseLong(TtlText).l

\* the keys an MTTL sets the ttl of: the matches that hold an unexpired item
MTtlTargets ==
    {k \in Holding(pre) :
        /\ Matches(gbParseKeyValue(client).key, k)
        /\ ~ExpiredAt(pre.tree[k], Now)}

\* C19: every item in the index has ttl <= maxitemttl; a SET with ttl > 0
\* stores min(maxitemttl, ttl), and TTL and MTTL store min(maxitemttl, the
\* value parsed).
C19_TtlClamp ==
    /\ \A k \in Holding(server) : server.tree[k].ttl <= maxitemttl
    /\ (client.op = "SET" /\ reply.code = "VAL" /\ TtlAsked > 0)
       => /\ server.tree[ReqParse.key].ttl = Clamped(TtlAsked)
          /\ reply.item.ttl = Clamped(TtlAsked)
    /\ (client.op = "TTL" /\ reply.code = "OK")
       => server.tree[ReqParse.key].ttl = Clamped(TtlAsked)
    /\ (client.op = "MTTL" /\ reply.code = "VAL")
       => /\ reply.num = Cardinality(MTtlTargets)
          /\ \A k \in MTtlTargets : server.tree[k].ttl = Clamped(TtlAsked)

\* an MTTL asking for more than maxitemttl has stored maxitemttl
C19_Witness ==
    /\ client.op = "MTTL"
    /\ reply.code = "VAL"
    /\ TtlAsked > maxitemttl
    /\ MTtlTargets # {}
    /\ \A k \in MTtlTargets : server.tree[k].ttl = maxitemttl

----------------------------------------------------------------------------
(* C20 *)

\* the single-key requests on the key
AccessesOf(k) ==
    {[p |-> k, oob |-> " ", op |-> op] :
        op \in {"GET", "DEL", "INC", "DEC", "UNLOCK"}}
    \cup {[p |-> Join(k, <<"1">>), oob |-> " ", op |-> "TTL"],
          [p |-> Join(k, <<"2">>), oob |-> " ", op |-> "LOCK"],
          [p |-> Join(k, <<"t", "t", "l">>), oob |-> " ", op |-> "META"]}

\* the request was a TTL with 0 < n <= maxitemttl that replied OK
TtlRestarted ==
    /\ client.op = "TTL"
    /\ reply.code = "OK"
    /\ TtlAsked \in 1..maxitemttl

\* the access, made at the time as the next request on the server, finds the
\* item of the key: it does not reply NOT_FOUND, and only a DEL that
\* replies OK takes the item away
FindsUnexpired(k, a, now) ==
    LET r == gbProcessQuery(AtTime(server, now), a)
    IN  /\ r.reply.code # "ERR_NOT_FOUND"
        /\ tr_find(r.server.tree, k) = NoItem
           => (a.op = "DEL" /\ r.reply.code = "OK")

\* the access, made at the time as the next request on the server, finds the
\* item of the key expired: NOT_FOUND, and the item is gone
FindsExpired(k, a, now) ==
    LET r == gbProcessQuery(AtTime(server, now), a)
    IN  /\ r.reply.code = "ERR_NOT_FOUND"
        /\ tr_find(r.server.tree, k) = NoItem
        /\ r.server.stats.nitems = server.stats.nitems - 1

\* the item is unexpired for the accesses of as in [t, t+n) and expired for
\* the first of them at t+n or later
CountdownFor(as) ==
    LET k == ReqParse.key
        n == TtlAsked
    IN  /\ server.tree[k].time = Now
        /\ server.tree[k].ttl = n
        /\ \A a \in as :
              /\ \A now \in Now .. (Now + n - 1) : FindsUnexpired(k, a, now)
              /\ \A now \in (Now + n) .. (Now + n + 1) : FindsExpired(k, a, now)

\* C20: after TTL k n with 0 < n <= maxitemttl replies OK at time t, the item
\* at k is unexpired at every time in [t, t+n), whatever its age and its ttl
\* before, and the first access at a time >= t+n finds it expired.
C20_TtlRestartsCountdown ==
    TtlRestarted => CountdownFor(AccessesOf(ReqParse.key))

\* the same for every access but a DEL while the item is locked: this one
\* holds
C20_TtlRestartsCountdownButLockedDel ==
    TtlRestarted =>
        /\ CountdownFor({a \in AccessesOf(ReqParse.key) : a.op # "DEL"})
        /\ server.tree[ReqParse.key].lock = 0
           => CountdownFor(AccessesOf(ReqParse.key))

\* a TTL of 1 second on an item locked indefinitely replied OK; one second
\* later the item has expired and a DEL of its key is answered LOCKED
C20_Witness ==
    /\ TtlRestarted
    /\ TtlAsked = 1
    /\ server.tree[ReqParse.key].lock = -1
    /\ ExpiredAt(server.tree[ReqParse.key], Now + 1)
    /\ gbProcessQuery(AtTime(server, Now + 1),
                      [p |-> ReqParse.key, oob |-> " ", op |-> "DEL"]).reply.code
          = "ERR_LOCKED"

----------------------------------------------------------------------------
(* C21 *)

\* the SET, DEL, INC and DEC requests on the key; the SET is one whose
\* payload parses to the key
MutationsOf(k) ==
    {a \in {[p |-> Join(Join(<<"1">>, k), <<"x">>), oob |-> " ", op |-> "SET"]} :
        LET q == gbParseTtlKeyValue(a) IN q.ok /\ q.key = k}
    \cup {[p |-> k, oob |-> " ", op |-> op] : op \in {"DEL", "INC", "DEC"}}

\* the integer of a LOCK request
LockAsked == gbQueryParseLong(gbParseKeyValue(client).value).l

\* the request was a LOCK that replied OK
LockGranted == client.op = "LOCK" /\ reply.code = "OK"

\* the reply that refuses the mutation: LOCKED, or, when the memory test
\* counts, MEM for a SET that it does not admit
Refusal(a, memtest) ==
    IF memtest /\ a.op = "SET" /\ ~MemAdmits(server) THEN "ERR_MEM"
    ELSE "ERR_LOCKED"

\* the mutation, made at the time as the next request on the server, is
\* refused and the item is as it was
Refused(k, a, now, memtest) ==
    LET r == gbProcessQuery(AtTime(server, now), a)
    IN  /\ r.reply.code = Refusal(a, memtest)
        /\ SameItem(tr_find(r.server.tree, k), server.tree[k])

\* the times of the lock window that has just been opened
LockWindow ==
    IF LockAsked = -1 THEN Now .. (MaxTime + 3)
    ELSE Now .. (Now + LockAsked - 1)

\* the items of the server before the request that were locked and valid
LockedThen ==
    {k \in Holding(pre) :
        LockedAt(pre.tree[k], Now) /\ ~ExpiredAt(pre.tree[k], Now)}

\* the window a granted LOCK opens, and what keeps a window open
WindowHolds(memtest) ==
    /\ (LockGranted /\ (LockAsked > 0 \/ LockAsked = -1))
       => LET k == ReqParse.key IN
          /\ server.tree[k].lock = LockAsked
          /\ server.tree[k].time = Now
          /\ \A now \in LockWindow :
                ~ExpiredAt(server.tree[k], now)
                => \A a \in MutationsOf(k) : Refused(k, a, now, memtest)
    /\ client.op \notin {"UNLOCK", "MUNLOCK"}
       => \A k \in LockedThen :
             /\ tr_find(server.tree, k) # NoItem
             /\ server.tree[k].lock = pre.tree[k].lock
             /\ server.tree[k].time >= pre.tree[k].time

----------------------------------------------------------------------------
(* C22 *)

\* the item unlocked and touched at the time
Unlocked(item, now) == [item EXCEPT !.lock = 0, !.last_access_time = now]

\* no SET, DEL, INC or DEC of the key, made next at the same time, replies
\* LOCKED
Unhindered(k) ==
    \A a \in MutationsOf(k) :
        gbProcessQuery(server, a).reply.code # "ERR_LOCKED"

\* the keys an MUNLOCK unlocks: the matches that hold an unexpired item
MUnlockTargets ==
    {k \in Holding(pre) :
        /\ Matches(gbParseKey(client).key, k)
        /\ ~ExpiredAt(pre.tree[k], Now)}

\* C22: UNLOCK on an unexpired item, unlocked, locked for a time or locked
\* indefinitely, replies OK and sets lock = 0 with value, encoding, ttl and
\* creation time as before; a SET, DEL, INC or DEC on the key at the same
\* time then does not reply LOCKED.  MUNLOCK does the same to every
\* unexpired item it matches.
C22_UnlockUnlocks ==
    /\ (/\ client.op = "UNLOCK"
        /\ ReqParse.ok
        /\ ReqItem # NoItem
        /\ ~ExpiredAt(ReqItem, Now))
       => /\ reply.code = "OK"
          /\ server.tree[ReqParse.key] = Unlocked(ReqItem, Now)
          /\ Unhindered(ReqParse.key)
    /\ (client.op = "MUNLOCK" /\ gbParseKey(client).ok)
       => \A k \in MUnlockTargets :
             /\ reply.code = "VAL"
             /\ reply.num = Cardinality(MUnlockTargets)
             /\ server.tree[k] = Unlocked(pre.tree[k], Now)
             /\ Unhindered(k)

\* an UNLOCK of an item locked indefinitely replied OK, and an INC of the
\* key at the same time is answered with the value
C22_Witness ==
    /\ client.op = "UNLOCK"
    /\ ReqParse.ok
    /\ ReqItem.lock = -1
    /\ ~ExpiredAt(ReqItem, Now)
    /\ reply.code = "OK"
    /\ server.tree[ReqParse.key].lock = 0
    /\ gbProcessQuery(server,
                      [p |-> ReqParse.key, oob |-> " ", op |-> "INC"]).reply.code
          = "VAL"

----------------------------------------------------------------------------
(* C23 *)

AbsentOps == {"GET", "TTL", "LOCK", "UNLOCK", "META", "DEL"}

\* the GET, TTL, LOCK, UNLOCK, META and DEL requests on the key
LookupsOf(k) == {a \in AccessesOf(k) : a.op \in AbsentOps}

\* the lookup, made at the time as the next request on the server, replies
\* NOT_FOUND and leaves the key without an item
FindsNothing(k, a, now) ==
    LET r == gbProcessQuery(AtTime(server, now), a)
    IN  /\ r.reply.code = "ERR_NOT_FOUND"
        /\ tr_find(r.server.tree, k) = NoItem
        /\ r.server.stats.nitems = server.stats.nitems

\* C23: DEL on an unexpired, unlocked item replies OK and removes it; from
\* then on GET, TTL, LOCK, UNLOCK, META and DEL on the key reply NOT_FOUND
\* at every time, and the key stays without an item until a SET, INC or DEC
\* creates one.
C23_DeletedStaysDeleted ==
    /\ (/\ client.op = "DEL"
        /\ ReqParse.ok
        /\ ReqItem # NoItem
        /\ ~ExpiredAt(ReqItem, Now)
        /\ ~LockedAt(ReqItem, Now))
       => /\ reply.code = "OK"
          /\ tr_find(server.tree, ReqParse.key) = NoItem
          /\ server.stats.nitems = pre.stats.nitems - 1
          /\ \A now \in LaterTimes(server) :
                \A a \in LookupsOf(ReqParse.key) :
                    FindsNothing(ReqParse.key, a, now)
    /\ (client.op \in AbsentOps /\ ReqParse.ok /\ ReqItem = NoItem)
       => /\ reply.code = "ERR_NOT_FOUND"
          /\ tr_find(server.tree, ReqParse.key) = NoItem
    /\ \A k \in Keys \cup DOMAIN server.tree :
          (tr_find(pre.tree, k) = NoItem /\ tr_find(server.tree, k) # NoItem)
          => client.op \in {"SET", "INC", "DEC"}

\* a DEL of an unlocked, unexpired item replied OK and emptied its slot,
\* and a GET of the key at the same time is answered NOT_FOUND
C23_Witness ==
    /\ client.op = "DEL"
    /\ ReqParse.ok
    /\ ReqItem # NoItem
    /\ reply.code = "OK"
    /\ tr_find(server.tree, ReqParse.key) = NoItem
    /\ gbProcessQuery(server, GetOf(ReqParse.key)).reply.code = "ERR_NOT_FOUND"

----------------------------------------------------------------------------
(* C24 *)

\* the keys holding an item that the pattern of the request matches
PatternMatches(expr) == {k \in Holding(pre) : Matches(expr, k)}

\* those whose item is unexpired at the time of the request, and the others
LiveMatches(expr) == {k \in PatternMatches(expr) : ~ExpiredAt(pre.tree[k], Now)}
DeadMatches(expr) == PatternMatches(expr) \ LiveMatches(expr)

\* the expired matches are out of the index and uncounted, the others are
\* in it, touched and otherwise as they were
WalkSwept(expr) ==
    /\ \A k \in DeadMatches(expr) : tr_find(server.tree, k) = NoItem
    /\ \A k \in LiveMatches(expr) :
          server.tree[k] = [pre.tree[k] EXCEPT !.last_access_time = Now]
    /\ \A k \in Holding(pre) \ PatternMatches(expr) :
          server.tree[k] = pre.tree[k]
    /\ server.stats.nitems = pre.stats.nitems - Cardinality(DeadMatches(expr))

\* C24: COUNT replies with the number of index keys matching the pattern
\* whose items are unexpired at the time of the request, locked or not, and
\* every expired item the walk visits is removed from the index and
\* destroyed during the walk.
C24_CountCountsLive ==
    (client.op = "COUNT" /\ gbParseKey(client).ok)
    => LET expr == gbParseKey(client).key IN
       /\ reply.code = "VAL"
       /\ reply.kind = "data"
       /\ reply.num = Cardinality(LiveMatches(expr))
       /\ WalkSwept(expr)

\* a COUNT matched an expired item and an unexpired one: it replied 1 and
\* removed the expired one
C24_Witness ==
    /\ client.op = "COUNT"
    /\ LET expr == gbParseKey(client).key IN
       /\ Cardinality(DeadMatches(expr)) = 1
       /\ Cardinality(LiveMatches(expr)) = 1
       /\ WalkSwept(expr)
    /\ reply.num = 1
    /\ Cardinality(Holding(server)) = 1

----------------------------------------------------------------------------
(* C25 *)

\* the request is an MGET without a limit
MGetAll ==
    /\ client.op = "MGET"
    /\ gbParseKeyAndOptionalValue(client).ok
    /\ ~gbParseKeyAndOptionalValue(client).hasvalue

\* the keys the set of the reply holds
SentKeys == {reply.keys[i] : i \in SentPairs(reply)}

\* the item the set of the reply pairs with the key
SentWith(k) ==
    reply.values[CHOOSE i \in SentPairs(reply) : reply.keys[i] = k]

\* C25: MGET without a limit replies with a key/value set holding exactly
\* the matching keys whose items are unexpired at the time of the request,
\* locked or not, each with its item; the count given to the encoder is the
\* number of those items; every expired match is removed from the index;
\* and the reply is NOT_FOUND when no match is unexpired.
C25_MGetRepliesLive ==
    MGetAll
    => LET expr == gbParseKeyAndOptionalValue(client).key IN
       /\ WalkSwept(expr)
       /\ IF LiveMatches(expr) = {}
          THEN reply.code = "ERR_NOT_FOUND"
          ELSE /\ reply.code = "VAL"
               /\ reply.kind = "set"
               /\ reply.num = Cardinality(LiveMatches(expr))
               /\ Cardinality(SentPairs(reply)) = reply.num
               /\ SentKeys = LiveMatches(expr)
               /\ \A k \in SentKeys : SentWith(k) = server.tree[k]

\* an MGET matched an expired item and an unexpired one: its set holds the
\* unexpired one, and the expired one is out of the index
C25_Witness ==
    /\ MGetAll
    /\ LET expr == gbParseKeyAndOptionalValue(client).key IN
       /\ Cardinality(DeadMatches(expr)) = 1
       /\ Cardinality(LiveMatches(expr)) = 1
       /\ SentKeys = LiveMatches(expr)
       /\ \A k \in DeadMatches(expr) : tr_find(server.tree, k) = NoItem
    /\ reply.kind = "set"
    /\ reply.num = 1

----------------------------------------------------------------------------
(* C26 *)

\* the request is a KEYS whose pattern parses
KeysAsked == client.op = "KEYS" /\ gbParseKey(client).ok

\* the keys the reply of a KEYS lists
ListedKeys == {reply.values[i].data : i \in SentPairs(reply)}

\* C26: a KEYS whose pattern matches only keys whose items are expired
\* replies NOT_FOUND, and the reply of a KEYS never lists the key of an
\* expired item.
C26_KeysSkipsExpired ==
    KeysAsked
    => LET expr == gbParseKey(client).key IN
       /\ LiveMatches(expr) = {} => reply.code = "ERR_NOT_FOUND"
       /\ reply.kind = "set" => ListedKeys \cap DeadMatches(expr) = {}

\* what KEYS does: it lists every matching key that holds an item, expired
\* or not, under its ordinal, and leaves the index as it is
C26_KeysListsEveryMatch ==
    KeysAsked
    => LET expr == gbParseKey(client).key IN
       /\ server.tree = pre.tree
       /\ server.stats.nitems = pre.stats.nitems
       /\ IF PatternMatches(expr) = {}
          THEN reply.code = "ERR_NOT_FOUND"
          ELSE /\ reply.code = "VAL"
               /\ reply.kind = "set"
               /\ reply.num = Cardinality(PatternMatches(expr))
               /\ ListedKeys = PatternMatches(expr)
               /\ \A i \in DOMAIN reply.keys : reply.keys[i] = IntToStr(i - 1)

\* a KEYS whose only match had expired replied with a set listing its key
C26_Witness ==
    /\ KeysAsked
    /\ LET expr == gbParseKey(client).key IN
       /\ LiveMatches(expr) = {}
       /\ ListedKeys = DeadMatches(expr)
       /\ Cardinality(DeadMatches(expr)) = 1
    /\ reply.code = "VAL"
    /\ reply.kind = "set"
    /\ reply.num = 1

----------------------------------------------------------------------------
(* C27 *)

\* the request is an INC or a DEC that finds an unexpired, unlocked item
IncDecOnItem ==
    /\ client.op \in {"INC", "DEC"}
    /\ ReqParse.ok
    /\ ReqItem # NoItem
    /\ ~ExpiredAt(ReqItem, Now)
    /\ ~LockedAt(ReqItem, Now)

\* the item is compressed, or plain with bytes that do not write an integer
NotANumber(item) ==
    \/ item.encoding = "LZF"
    \/ item.encoding = "PLAIN" /\ ~IsDecimal(item.data)

\* NAN, and the item as it was
RepliedNan ==
    /\ reply.code = "ERR_NAN"
    /\ SameItem(server.tree[ReqParse.key], ReqItem)
    /\ server.tree[ReqParse.key].time = ReqItem.time
    /\ server.heap = pre.heap

\* C27: INC or DEC on an unexpired, unlocked item that is LZF encoded, or
\* PLAIN with bytes that are not an integer, replies NAN and leaves value,
\* encoding, size, ttl and lock of the item unchanged.
C27_IncDecNan == (IncDecOnItem /\ NotANumber(ReqItem)) => RepliedNan

\* the same for the plain items whose bytes do not start with 0 and are not
\* the sign alone, and for the LZF items: this one holds
C27_IncDecNanButZeroAndSign ==
    (/\ IncDecOnItem
     /\ NotANumber(ReqItem)
     /\ ReqItem.encoding = "PLAIN"
        => (ReqItem.data[1] # "0" /\ ReqItem.data # <<"-">>))
    => RepliedNan

\* an INC of a plain item holding the bytes 0x replied with the number 1
C27_Witness ==
    /\ client.op = "INC"
    /\ IncDecOnItem
    /\ ReqItem.encoding = "PLAIN"
    /\ ReqItem.data = <<"0", "x">>
    /\ reply.code = "VAL"
    /\ server.tree[ReqParse.key].encoding = "NUMBER"
    /\ server.tree[ReqParse.key].num = 1

----------------------------------------------------------------------------
(* C28 *)

\* the keys of the server before the request whose item had a timed lock
\* that has elapsed
ElapsedThen ==
    {k \in Holding(pre) :
        pre.tree[k].lock > 0 /\ Now - pre.tree[k].time >= pre.tree[k].lock}

\* the item of the key is locked after the request, now or at a later time
LockedAgain(k) ==
    /\ tr_find(server.tree, k) # NoItem
    /\ \E now \in LaterTimes(server) : LockedAt(server.tree[k], now)

\* C28: once the timed lock of an item has elapsed, the item stays unlocked
\* at every later time until a LOCK or an MLOCK succeeds on it: no other
\* request makes it locked again.
C28_LockStaysElapsed ==
    \A k \in ElapsedThen : LockedAgain(k) => client.op \in {"LOCK", "MLOCK"}

\* the same for every request but TTL and MTTL: this one holds
C28_LockStaysElapsedButTtl ==
    \A k \in ElapsedThen :
        LockedAgain(k) => client.op \in {"LOCK", "MLOCK", "TTL", "MTTL"}

\* a TTL on an item whose lock of 2 seconds had elapsed replied OK, and an
\* INC of the key at the same time is answered LOCKED
C28_Witness ==
    /\ client.op = "TTL"
    /\ ReqParse.ok
    /\ ReqParse.key \in ElapsedThen
    /\ ReqItem.lock = 2
    /\ reply.code = "OK"
    /\ server.tree[ReqParse.key].lock = 2
    /\ LockedAt(server.tree[ReqParse.key], Now)
    /\ gbProcessQuery(server,
                      [p |-> ReqParse.key, oob |-> " ", op |-> "INC"]).reply.code
          = "ERR_LOCKED"

----------------------------------------------------------------------------
(* C29 *)

\* the time at which the item expires, for an item with ttl > 0
ExpiryInstant(item) == item.time + item.ttl

\* the keys whose item had a countdown before the request and still is in
\* the index, with a countdown, after it
Counting ==
    {k \in Holding(pre) :
        /\ pre.tree[k].ttl > 0
        /\ ~ExpiredAt(pre.tree[k], Now)
        /\ tr_find(server.tree, k) # NoItem
        /\ server.tree[k].ttl > 0}

\* a SET with ttl n > 0 leaves an item that is expired from t + n on
SetStartsCountdown ==
    (client.op = "SET" /\ reply.code = "VAL" /\ TtlAsked > 0)
    => /\ ExpiryInstant(server.tree[ReqParse.key]) = Now + Clamped(TtlAsked)
       /\ \A now \in (Now + TtlAsked) .. (Now + TtlAsked + MaxTime) :
             ExpiredAt(server.tree[ReqParse.key], now)

\* no request but those of ops moves the expiry instant of an item
InstantMovedOnlyBy(ops) ==
    \A k \in Counting :
        ExpiryInstant(server.tree[k]) # ExpiryInstant(pre.tree[k])
        => client.op \in ops

\* C29: an item stored by SET with ttl n > 0 at time t is expired at every
\* time >= t + n unless a SET, MSET, TTL or MTTL succeeded on its key in
\* between: LOCK, MLOCK, UNLOCK, MUNLOCK, GET, META, INC and DEC do not
\* move the expiry instant.
C29_LockKeepsExpiry ==
    /\ SetStartsCountdown
    /\ InstantMovedOnlyBy({"SET", "MSET", "TTL", "MTTL"})

\* the same with LOCK and MLOCK among the requests that move the instant:
\* this one holds
C29_ExpiryMovedByLockToo ==
    /\ SetStartsCountdown
    /\ InstantMovedOnlyBy({"SET", "MSET", "TTL", "MTTL", "LOCK", "MLOCK"})

\* a LOCK on an item a second into its ttl of 2 replied OK; a GET of the
\* key at the time the item was to expire is answered with the value
C29_Witness ==
    /\ LockGranted
    /\ ReqItem.ttl = 2
    /\ ReqItem.time = Now - 1
    /\ ExpiryInstant(server.tree[ReqParse.key]) = ExpiryInstant(ReqItem) + 1
    /\ gbProcessQuery(AtTime(server, ExpiryInstant(ReqItem)),
                      GetOf(ReqParse.key)).reply.code = "VAL"

----------------------------------------------------------------------------
(* C30 *)

\* the request wrote a new item into the slot of the key, which held one:
\* a SET answered with the item, or an MSET on a matched item that was not
\* locked and whose slot holds an item afterwards
Replaced(k) ==
    /\ k \in Holding(pre)
    /\ \/ client.op = "SET" /\ reply.code = "VAL" /\ ReqParse.key = k
       \/ /\ client.op = "MSET" /\ Walks
          /\ k \in Matched
          /\ ~gbItemIsLocked(pre.tree[k], pre)
          /\ tr_find(server.tree, k) # NoItem

\* the request emptied the slot of the key, which held an item
Emptied(k) == k \in Holding(pre) /\ tr_find(server.tree, k) = NoItem

\* how many times the request gave the item back to the pool
TimesDestroyed(item) ==
    Cardinality({i \in DOMAIN destroyed : destroyed[i] = item})

\* how many slots holding the item the request emptied, or overwrote
SlotsEmptied(item) ==
    Cardinality({k \in Holding(pre) : pre.tree[k] = item /\ Emptied(k)})

SlotsReplaced(item) ==
    Cardinality({k \in Holding(pre) : pre.tree[k] = item /\ Replaced(k)})

\* the items the request found in the index or gave back to the pool
ItemsSeen ==
    {pre.tree[k] : k \in Holding(pre)} \cup {destroyed[i] : i \in DOMAIN destroyed}

\* C30: a request destroys an item once for each slot that held it and that
\* the request emptied or overwrote, and destroys nothing else: so no item is
\* destroyed twice and no slot is left holding a destroyed item.  A request
\* other than SET and MSET, whose destructions are expiry detections and
\* deletions, empties the slot of every item it destroys, and so does the
\* expiry detection of MSET.  An item enqueued in a reply, alone or in the
\* set of MGET, is the item its slot holds after the request.
C30_NoDanglingItem ==
    /\ \A item \in ItemsSeen :
          /\ TimesDestroyed(item) = SlotsEmptied(item) + SlotsReplaced(item)
          /\ client.op \notin {"SET", "MSET"}
                => TimesDestroyed(item) = SlotsEmptied(item)
    /\ \A k \in Holding(pre) :
          (client.op = "MSET" /\ Walks /\ k \in Matched
             /\ ~gbItemIsLocked(pre.tree[k], pre) /\ Expired(pre.tree[k], pre))
          => Emptied(k)
    /\ reply.kind = "item"
          => \E k \in Holding(server) : server.tree[k] = reply.item
    /\ (client.op = "MGET" /\ reply.kind = "set")
          => \A i \in SentPairs(reply) :
                tr_find(server.tree, reply.keys[i]) = reply.values[i]

\* an MGET found one match expired and one not: it destroyed the first once,
\* emptied its slot and sent the second
C30_Witness ==
    /\ client.op = "MGET"
    /\ reply.kind = "set"
    /\ SentPairs(reply) # {}
    /\ Len(destroyed) = 1
    /\ Expired(destroyed[1], pre)
    /\ \E k \in Holding(pre) : pre.tree[k] = destroyed[1] /\ Emptied(k)

----------------------------------------------------------------------------
(* The parsers on arbitrary payloads.  One request whose payload is parsed   *)
(* by gbParseKeyValue with a value requested, or by gbParseTtlKeyValue, is   *)
(* answered by a server that holds one item at the key "a".  A read past the *)
(* end of the request buffer is undefined: the byte it yields is either a    *)
(* space or a digit.                                                         *)

\* longest payload of the exhaustive part
MaxParseLen == 6

ParseBytes == {"a", " ", "1"}
OobBytes == {" ", "1"}

\* the handlers that call gbParseKeyValue with a value, and SET
KeyValueParseOps == {"TTL", "LOCK", "MSET", "MTTL", "MLOCK", "META"}
ParseOps == KeyValueParseOps \cup {"SET"}

Ones(n) == [j \in 1..n |-> "1"]
As(n) == [j \in 1..n |-> "a"]

\* every payload of 1..MaxParseLen bytes, a value longer than maxvaluesize,
\* and "ttl key value" for every length of ttl and key up to maxkeysize
ParsePayloads ==
    UNION {[1..n -> ParseBytes] : n \in 1..MaxParseLen}
    \cup {Join(KeyA, Ones(maxvaluesize + 1))}
    \cup {Join(Ones(t), Join(As(k), <<"a">>)) : t \in 1..maxkeysize, k \in 1..maxkeysize}

\* the server after start-up and SET "-1 a x"
SeededServer ==
    LET new == [tree |-> [k \in {} |-> NoItem],
                heap |-> 0,
                stats |-> [time |-> 0, ncompressed |-> 0, memused |-> 0,
                           nitems |-> 0, requests |-> 0],
                freed |-> <<>>,
                m_keys |-> <<>>,
                m_values |-> <<>>]
        set == [p |-> Join(Minus1, Join(KeyA, <<"x">>)), oob |-> " ", op |-> "SET"]
    IN  [gbProcessQuery(new, set).server EXCEPT !.freed = <<>>]

ParseInit ==
    /\ server = SeededServer
    /\ client = NoClient
    /\ reply = NoReply
    /\ pre = server
    /\ destroyed = <<>>

\* one request of the opcode, with any payload and any byte past its end
ParseRequest(op) ==
    LET Process(process(_, _), c) ==
            /\ client = NoClient
            /\ LET r == process(server, c)
               IN  /\ server' = [r.server EXCEPT !.freed = <<>>]
                   /\ reply' = r.reply
                   /\ destroyed' = r.server.freed
            /\ client' = c
            /\ pre' = server
    IN  \E p \in ParsePayloads, o \in OobBytes :
            Process(gbProcessQuery, [p |-> p, oob |-> o, op |-> op])

ParseTtl   == ParseRequest("TTL")
ParseLock  == ParseRequest("LOCK")
ParseMSet  == ParseRequest("MSET")
ParseMTtl  == ParseRequest("MTTL")
ParseMLock == ParseRequest("MLOCK")
ParseMeta  == ParseRequest("META")
ParseSet   == ParseRequest("SET")

ParseNext ==
    \/ ParseTtl \/ ParseLock \/ ParseMSet \/ ParseMTtl \/ ParseMLock
    \/ ParseMeta \/ ParseSet

ParseSpec == ParseInit /\ [][ParseNext]_vars

----------------------------------------------------------------------------
(* C31 *)

\* the payload is a key and nothing else: no separator, no value, and no
\* more bytes than a key may have
KeyAlone(p) ==
    /\ Len(p) \in 1..maxkeysize
    /\ \A i \in DOMAIN p : p[i] # " "

\* a successful parse keeps vlen within the payload and within maxvaluesize
ValueLengthBounded(c) ==
    LET q == gbParseKeyValue(c)
        L == Len(c.p)
    IN  q.ok => /\ q.vlen <= USub(USub(L, q.klen), 1)
                /\ q.vlen <= maxvaluesize

\* C31 as claimed: for every payload of length L parsed by gbParseKeyValue
\* with a value requested, a successful parse yields vlen <= L - klen - 1
\* (in unsigned arithmetic) and vlen <= maxvaluesize, and a payload that
\* holds a key but no separator and no value never parses with vlen > 0.
C31_ValueLengthWithinPayload ==
    client.op \in KeyValueParseOps
    => /\ ValueLengthBounded(client)
       /\ KeyAlone(client.p)
             => ~(gbParseKeyValue(client).ok /\ gbParseKeyValue(client).vlen > 0)

\* C31, the part that holds: the two bounds on vlen; and a parsed value lies
\* within the payload unless the payload ends with its key
C31_ValueLengthBoundedOnly ==
    client.op \in KeyValueParseOps
    => /\ ValueLengthBounded(client)
       /\ (gbParseKeyValue(client).ok
             /\ gbParseKeyValue(client).klen < Len(client.p))
          => gbParseKeyValue(client).klen + 1 + gbParseKeyValue(client).vlen
                <= Len(client.p)

\* TTL "a", the key alone, parsed with a value of maxvaluesize bytes read
\* past the end of the buffer, and the ttl of the item was set from them
C31_Witness ==
    /\ client.op = "TTL"
    /\ client.p = KeyA
    /\ gbParseKeyValue(client).ok
    /\ gbParseKeyValue(client).vlen = maxvaluesize
    /\ reply.code = "OK"
    /\ tr_find(server.tree, KeyA).ttl = maxitemttl

----------------------------------------------------------------------------
(* C32 *)

\* the request is a SET whose payload is "ttl key value" with a ttl field, a
\* space-free key of 1..maxkeysize bytes and a value
SetOfWholeKey ==
    /\ client.op = "SET"
    /\ SetFields.shaped
    /\ Len(SetFields.ttl) >= 1
    /\ Len(SetFields.key) \in 1..maxkeysize
    /\ Len(SetFields.value) >= 1

\* what a single-key handler parses from the key of the SET
KeyParsedAlone == gbParseKey([client EXCEPT !.p = SetFields.key])

\* gbParseTtlKeyValue gives the whole key, the key a single-key handler
\* parses, and the value that starts right after the separator of the key
ParsesWholeKey ==
    LET q == gbParseTtlKeyValue(client)
    IN  /\ q.ok
        /\ q.klen = Len(SetFields.key)
        /\ q.key = SetFields.key
        /\ q.key = KeyParsedAlone.key
        /\ q.value = SubSeq(SetFields.value, 1,
                            Min(Len(SetFields.value), maxvaluesize))

\* C32 as claimed: for every SET payload "ttl key value" whose key is
\* space-free with length <= maxkeysize, gbParseTtlKeyValue yields klen equal
\* to the full key length, the key the single-key handlers parse, and a value
\* that starts right after the separator following the key, whatever the
\* length of the ttl field.
C32_SetParsesWholeKey ==
    SetOfWholeKey => ParsesWholeKey

\* C32, the part that holds: the same when the ttl field, its separator and
\* the key together take no more than maxkeysize bytes.
C32_SetParsesWholeKeyOfShortPayload ==
    (SetOfWholeKey /\ Len(SetFields.ttl) + 1 + Len(SetFields.key) <= maxkeysize)
    => ParsesWholeKey

\* SET "1 aaa a" replied VAL: the key was cut to "aa", and no item was stored
\* at "aaa"
C32_Witness ==
    /\ SetOfWholeKey
    /\ SetFields.ttl = <<"1">>
    /\ SetFields.key = As(3)
    /\ reply.code = "VAL"
    /\ gbParseTtlKeyValue(client).key = As(2)
    /\ tr_find(server.tree, As(2)) # NoItem
    /\ tr_find(server.tree, As(3)) = NoItem

====
